---- MODULE Spec2Model ----
(***************************************************************************)
(* State-machine model of the decision-and-action core of the bot:         *)
(*   - GoalPlanner   (src/src/cognitive/goal_planner.rs)                   *)
(*   - MotorInner and the motor tick handler (src/src/systems/motor.rs)    *)
(*   - Economy / PlayerLedger (src/src/systems/economy.rs)                 *)
(* Each subsystem sits behind its own mutex, so every public operation is  *)
(* one atomic action.  The three subsystems share no state; each has its   *)
(* own specification in which the other two stutter.                       *)
(***************************************************************************)
EXTENDS Integers, Sequences, FiniteSets, TLC

(***************************************************************************)
(* Bounds of the model (not program constants).                            *)
(***************************************************************************)
\* goals appended by add_goal / emergency on top of the seeded backlog
MaxAdded == 2
\* cap on the sum of all attempt counters (a pick_next that selects a goal
\* increments one of them)
MaxPicks == 8
\* longest pending queue of the executor model
MaxQueue == 2
\* debts recorded over all ledgers
MaxDebts == 3
\* cap on the quantity received over all ledgers
MaxReceived == 1
\* the clock stops at this hour
MaxHours == 50
\* cap on predictions_made (calls of record_prediction)
MaxRecorded == 11
\* cap on predictions_correct (calls of record_correct)
MaxCorrect == 1
\* commands the producers may leave pending where the fidget cap is exercised
MaxPending == 6
\* tasks spawned in a run
MaxTasks == 2
\* chat messages received in a run
MaxHistory == 2
\* debts the bot owes, per run
MaxOwed == 3
\* items received in total where the bot owes debts
MaxSettled == 4

VARIABLES
    \* ---- GoalPlanner (goal_planner.rs:69-74) ----
    goals,            \* Vec<Goal>; a goal's id is its position (ids are unique UUIDs)
    active_goal,      \* Option<String>: position of the active goal, 0 = None
    completed_count,
    failed_count,
    picked,           \* the goal the last operation returned: pick_next()'s result
                      \* (position, 0 = None); 0 after the operations returning nothing
    preempted,        \* history: the active reference the last emergency() found,
                      \* kept while that emergency() is the last operation or is
                      \* directly followed by a pick_next(); 0 otherwise
    goal_op,          \* history: the last GoalPlanner operation
    \* ---- MotorInner (motor.rs:61-82) ----
    command_queue,    \* VecDeque<MotorCommand>, front first
    active_action,    \* Option<ActiveAction>: <<>> = None, <<a>> = Some(a)
    nearby_players,
    is_sprinting,
    is_sneaking,
    is_walking,
    executed,         \* the command the last executor step popped and executed
                      \* (<<>> = none): its side effect on the game client
    completed,        \* the command whose completion clean-up the last executor
                      \* step ran (<<>> = none)
    ran_steps,        \* history: executor steps the action in the active slot has
                      \* been through since it was installed (0 with the slot empty)
    urgent_arg,       \* history: the command of the last queue_urgent() call, kept
                      \* while that call is the last operation or is directly
                      \* followed by an executor step; <<>> otherwise
    motor_op,         \* history: the last MotorInner operation
    \* ---- Economy (economy.rs:81-85) and the wall clock ----
    ledgers,          \* HashMap<String, PlayerLedger>: <<>> = no entry, <<l>> = entry
    now,              \* Utc::now(), in whole hours
    request,          \* history: the arguments of the last evaluate_request()
                      \* while it is the last operation; <<>> otherwise
    decision,         \* the TradeDecision that call returned (<<>> = none)
    received,         \* history: the arguments of the last record_received()
                      \* while it is the last operation; <<>> otherwise
    ledger_op,        \* history: the last Economy operation
    \* ---- SpiderSense (spider_sense.rs:57-63) ----
    active_predictions,
    predictions_made,
    predictions_correct,
    accuracy,         \* f32, kept as <<numerator, denominator>>
    spider_call,      \* history: the evaluator and the arguments of the last call
                      \* while an evaluator call is the last operation; <<>> otherwise
    spider_result,    \* what that call returned (<<>> = None, <<t>> = Some(t)), or
                      \* the position most_urgent() returned (0 = None)
    spider_op,        \* history: the last SpiderSense operation
    \* ---- the spider-sense section of the tick handler (bot.rs:100-169) ----
    tick_commands,    \* history: the commands the last run of the section queued,
                      \* in the order it queued them, each with the rank of the
                      \* threat record it was derived from
    \* ---- the event handler and the tasks it spawns (bot.rs, brain.rs) ----
    tasks,            \* the tasks spawned with tokio::spawn, in spawn order: each
                      \* with its kind, its position and its retry counter
    responded,        \* history: the task whose request came back in the last
                      \* step, with the response, the number of the attempt
                      \* and the seconds the task sleeps before it tries again
                      \* (<<>> when the last step was another one)
    motor_lock,       \* the mutex of MotorState: 0 = free, n = held by task n
                      \* (the tick path takes and drops it inside one section)
    dequeued,         \* history: the tasks whose command the executor has popped,
                      \* in the order of the pops
    chat_history,     \* brain State.chat_history: Vec<String>
    save_counter,     \* brain State.save_counter
    emitted,          \* the calls the last step made on the game client (chat,
                      \* jump, sprint, start_goto), each with the code issuing it
    tick_pc,          \* the section of the tick handler that runs next
    tick_log,         \* history: the subsystem steps of the tick in progress (of
                      \* the last tick once it has ended), in the order they ran
    \* ---- the std::sync::Mutex locks of State (bot.rs:9-22, brain.rs State) ----
    lock_owner,       \* for every mutex, the handler or task holding its guard
                      \* ("none" = unlocked)
    lock_pc           \* for every handler and task, the instruction it runs next
                      \* (0 = not running)

goal_vars == <<goals, active_goal, completed_count, failed_count, picked,
               preempted, goal_op>>

motor_vars == <<command_queue, active_action, nearby_players, is_sprinting,
                is_sneaking, is_walking, executed, completed, ran_steps,
                urgent_arg, motor_op>>

ledger_vars == <<ledgers, now, request, decision, received, ledger_op>>

spider_vars == <<active_predictions, predictions_made, predictions_correct,
                 accuracy, spider_call, spider_result, spider_op, tick_commands>>

lock_vars == <<lock_owner, lock_pc>>

task_vars == <<tasks, responded, motor_lock, dequeued, chat_history, save_counter, emitted,
               tick_pc, tick_log>>

vars == <<goals, active_goal, completed_count, failed_count, picked,
          preempted, goal_op,
          command_queue, active_action, nearby_players, is_sprinting,
          is_sneaking, is_walking, executed, completed, ran_steps,
          urgent_arg, motor_op,
          ledgers, now, request, decision, received, ledger_op,
          active_predictions, predictions_made, predictions_correct,
          accuracy, spider_call, spider_result, spider_op, tick_commands,
          tasks, responded, motor_lock, dequeued, chat_history, save_counter,
          emitted, tick_pc, tick_log, lock_owner, lock_pc>>

(***************************************************************************)
(* GoalPlanner                                                             *)
(***************************************************************************)
\* enum GoalPriority, by discriminant
Critical == 0
High == 1
Medium == 2
Low == 3
Background == 4
Social == 5
GoalPriority == Critical..Social

\* the priorities add_goal is called with in the model
AddPriorities == {Critical, Social}

GoalStatus == {"Pending", "Active", "Paused", "Completed", "Failed", "Abandoned"}

\* Goal::new: status Pending, attempts 0, max_attempts 5
DefaultMaxAttempts == 5
EmergencyMaxAttempts == 1

NewGoal(priority) ==
    [priority |-> priority, status |-> "Pending", attempts |-> 0,
     max_attempts |-> DefaultMaxAttempts]

\* GoalPlanner::seed_initial_goals
SeedGoals ==
    << NewGoal(Critical), NewGoal(High), NewGoal(Critical), NewGoal(High),
       NewGoal(Medium), NewGoal(Medium), NewGoal(Low), NewGoal(Background) >>

\* an is_actionable that takes only Pending goals
is_actionable_pending_only(g) == g.status = "Pending"

\* Goal::is_actionable
is_actionable(g) == g.status = "Pending" \/ g.status = "Active"

\* a min_by_key that keeps the last of several equal minima
MinByKeyLast(gs, S) ==
    IF S = {} THEN 0
    ELSE CHOOSE i \in S :
            \A j \in S : \/ gs[i].priority < gs[j].priority
                         \/ (gs[i].priority = gs[j].priority /\ i >= j)

\* Iterator::min_by_key over the positions in S keyed by priority: the minimum
\* key, and the first element (lowest position) among equal keys; 0 when empty.
MinByKey(gs, S) ==
    IF S = {} THEN 0
    ELSE CHOOSE i \in S :
            \A j \in S : \/ gs[i].priority < gs[j].priority
                         \/ (gs[i].priority = gs[j].priority /\ i <= j)

\* GoalPlanner::current_goal
current_goal(gs, ag) ==
    IF ag /= 0
    THEN (IF is_actionable(gs[ag]) THEN ag ELSE 0)
    ELSE MinByKey(gs, {i \in 1..Len(gs) : is_actionable(gs[i])})

\* the active goal is left Active
PauseCurrentNever(gs, ag) == gs

\* "Pause current if any": the goal the active reference names, if Active
PauseCurrent(gs, ag) ==
    IF ag /= 0 /\ gs[ag].status = "Active"
    THEN [gs EXCEPT ![ag].status = "Paused"]
    ELSE gs

\* only Pending goals are candidates
PickCandidatesPendingOnly(gs) ==
    {i \in 1..Len(gs) : gs[i].status = "Pending"}

\* Failed goals are candidates too
PickCandidatesWithFailed(gs) ==
    {i \in 1..Len(gs) : gs[i].status \in {"Pending", "Paused", "Failed"}}

\* the candidates of pick_next: status Pending or Paused
PickCandidates(gs) ==
    {i \in 1..Len(gs) : gs[i].status = "Pending" \/ gs[i].status = "Paused"}

TotalAttempts(gs) ==
    LET RECURSIVE Sum(_)
        Sum(n) == IF n = 0 THEN 0 ELSE gs[n].attempts + Sum(n - 1)
    IN Sum(Len(gs))

\* GoalPlanner::pick_next, with fewer than cap attempts counted so far
PickNextWithin(cap) ==
    /\ PickCandidates(PauseCurrent(goals, active_goal)) /= {} =>
           TotalAttempts(goals) < cap
    /\ LET paused == PauseCurrent(goals, active_goal)
           next_id == MinByKey(paused, PickCandidates(paused))
           gs2 == IF next_id /= 0
                  THEN [paused EXCEPT ![next_id].status = "Active",
                                      ![next_id].attempts = @ + 1]
                  ELSE paused
           ag2 == IF next_id /= 0 THEN next_id ELSE active_goal
       IN /\ goals' = gs2
          /\ active_goal' = ag2
          /\ picked' = current_goal(gs2, ag2)
    /\ preempted' = (IF goal_op = "emergency" THEN preempted ELSE 0)
    /\ goal_op' = "pick_next"
    /\ UNCHANGED <<completed_count, failed_count>>
    /\ UNCHANGED <<motor_vars, ledger_vars, spider_vars, task_vars, lock_vars>>

\* complete_current that reads the active reference without taking it
CompleteCurrentKeepsReference ==
    /\ IF active_goal /= 0
       THEN /\ goals' = [goals EXCEPT ![active_goal].status = "Completed"]
            /\ completed_count' = completed_count + 1
       ELSE UNCHANGED <<goals, completed_count>>
    /\ active_goal' = active_goal
    /\ preempted' = 0
    /\ goal_op' = "complete_current"
    /\ picked' = 0
    /\ UNCHANGED failed_count
    /\ UNCHANGED <<motor_vars, ledger_vars, spider_vars, task_vars, lock_vars>>

\* GoalPlanner::pick_next
PickNext == PickNextWithin(MaxPicks)

\* GoalPlanner::complete_current
CompleteCurrent ==
    /\ IF active_goal /= 0
       THEN /\ goals' = [goals EXCEPT ![active_goal].status = "Completed"]
            /\ completed_count' = completed_count + 1
       ELSE UNCHANGED <<goals, completed_count>>
    /\ active_goal' = 0
    /\ preempted' = 0
    /\ goal_op' = "complete_current"
    /\ picked' = 0
    /\ UNCHANGED failed_count
    /\ UNCHANGED <<motor_vars, ledger_vars, spider_vars, task_vars, lock_vars>>

\* fail_current with the retry test off by one (attempts > max_attempts)
FailCurrentOffByOne ==
    /\ IF active_goal /= 0
       THEN IF goals[active_goal].attempts > goals[active_goal].max_attempts
            THEN /\ goals' = [goals EXCEPT ![active_goal].status = "Failed"]
                 /\ failed_count' = failed_count + 1
            ELSE /\ goals' = [goals EXCEPT ![active_goal].status = "Paused"]
                 /\ UNCHANGED failed_count
       ELSE UNCHANGED <<goals, failed_count>>
    /\ active_goal' = 0
    /\ preempted' = 0
    /\ goal_op' = "fail_current"
    /\ picked' = 0
    /\ UNCHANGED completed_count
    /\ UNCHANGED <<motor_vars, ledger_vars, spider_vars, task_vars, lock_vars>>

\* fail_current that pauses the goal whatever its attempts
FailCurrentAlwaysPauses ==
    /\ IF active_goal /= 0
       THEN /\ goals' = [goals EXCEPT ![active_goal].status = "Paused"]
            /\ UNCHANGED failed_count
       ELSE UNCHANGED <<goals, failed_count>>
    /\ active_goal' = 0
    /\ preempted' = 0
    /\ goal_op' = "fail_current"
    /\ picked' = 0
    /\ UNCHANGED completed_count
    /\ UNCHANGED <<motor_vars, ledger_vars, spider_vars, task_vars, lock_vars>>

\* GoalPlanner::fail_current
FailCurrent ==
    /\ IF active_goal /= 0
       THEN IF goals[active_goal].attempts >= goals[active_goal].max_attempts
            THEN /\ goals' = [goals EXCEPT ![active_goal].status = "Failed"]
                 /\ failed_count' = failed_count + 1
            ELSE /\ goals' = [goals EXCEPT ![active_goal].status = "Paused"]
                 /\ UNCHANGED failed_count
       ELSE UNCHANGED <<goals, failed_count>>
    /\ active_goal' = 0
    /\ preempted' = 0
    /\ goal_op' = "fail_current"
    /\ picked' = 0
    /\ UNCHANGED completed_count
    /\ UNCHANGED <<motor_vars, ledger_vars, spider_vars, task_vars, lock_vars>>

\* GoalPlanner::add_goal, with a goal built by Goal::new (dreamer.rs:205-209)
AddGoal(priority) ==
    /\ Len(goals) < Len(SeedGoals) + MaxAdded
    /\ goals' = Append(goals, NewGoal(priority))
    /\ preempted' = 0
    /\ goal_op' = "add_goal"
    /\ picked' = 0
    /\ UNCHANGED <<active_goal, completed_count, failed_count>>
    /\ UNCHANGED <<motor_vars, ledger_vars, spider_vars, task_vars, lock_vars>>

\* emergency that pushes the new goal Pending and leaves the rest alone
EmergencyNotActivated ==
    /\ Len(goals) < Len(SeedGoals) + MaxAdded
    /\ goals' = Append(goals, [NewGoal(Critical) EXCEPT
                                  !.max_attempts = EmergencyMaxAttempts])
    /\ active_goal' = active_goal
    /\ preempted' = active_goal
    /\ goal_op' = "emergency"
    /\ picked' = 0
    /\ UNCHANGED <<completed_count, failed_count>>
    /\ UNCHANGED <<motor_vars, ledger_vars, spider_vars, task_vars, lock_vars>>

\* GoalPlanner::emergency
Emergency ==
    /\ Len(goals) < Len(SeedGoals) + MaxAdded
    /\ LET goal == [NewGoal(Critical) EXCEPT !.status = "Active",
                                             !.max_attempts = EmergencyMaxAttempts]
           pushed == Append(goals, goal)
       IN /\ goals' = PauseCurrent(pushed, active_goal)
          /\ active_goal' = Len(pushed)
    /\ preempted' = active_goal
    /\ goal_op' = "emergency"
    /\ picked' = 0
    /\ UNCHANGED <<completed_count, failed_count>>
    /\ UNCHANGED <<motor_vars, ledger_vars, spider_vars, task_vars, lock_vars>>

\* GoalPlanner::default
GoalInit ==
    /\ goals = SeedGoals
    /\ active_goal = 0
    /\ completed_count = 0
    /\ failed_count = 0
    /\ picked = 0
    /\ preempted = 0
    /\ goal_op = "default"

GoalNext ==
    \/ PickNext
    \/ CompleteCurrent
    \/ FailCurrent
    \/ \E p \in AddPriorities : AddGoal(p)
    \/ Emergency

\* the attempts a backlog of the model can count before every goal has
\* exhausted its own
AttemptsToExhaust == (Len(SeedGoals) + MaxAdded) * DefaultMaxAttempts

\* goals are added and emergencies raised before the first pick_next()
Submitting == goal_op \in {"default", "add_goal", "emergency"}

\* a caller that, once the submissions are over, only calls pick_next() and
\* then fail_current(), round after round
RetryPick == goal_op /= "pick_next" /\ PickNextWithin(AttemptsToExhaust + 1)
RetryFail == goal_op = "pick_next" /\ FailCurrent

RetryNext ==
    \/ Submitting /\ \E p \in AddPriorities : AddGoal(p)
    \/ Submitting /\ Emergency
    \/ RetryPick
    \/ RetryFail

(***************************************************************************)
(* Motor: the command queue and the single-slot timed action               *)
(* tick_counter and commands_executed (statistics, never read),            *)
(* last_movement_time and bot_position (only the wander target) are left   *)
(* out; the payloads of Chat, LookAt, FleeDirection, GotoBlock and Log do  *)
(* not influence the executor and are dropped.                             *)
(***************************************************************************)
\* enum MotorCommand
Cmd(kind) == [kind |-> kind, duration_ticks |-> 0]
Timed(kind, d) == [kind |-> kind, duration_ticks |-> d]

InstantKinds == {"Chat", "LookAt", "RandomLook", "Jump", "Log"}
TimedKinds == {"StartSprint", "SneakPulse", "WalkForward"}
GotoKinds == {"GotoBlock", "WanderRandom"}

\* inject_fidgets: queue_len() > 5 stops the fidgets
FidgetQueueCap == 5
\* inject_fidgets: SneakPulse { duration_ticks: 4 }
FidgetSneakTicks == 4
\* FleeDirection installs StartSprint { duration_ticks: 40 } with 40 ticks
FleeTicks == 40

\* the commands the producers pass to queue() / queue_urgent() in the model:
\* an instantaneous command, a pathfinder command, the flee command and timed
\* commands of 0, 1 and 2 ticks (the fidgets add RandomLook, Jump and a
\* 4-tick SneakPulse, FleeDirection a 40-tick StartSprint)
MotorInputs ==
    { Cmd("Chat"), Cmd("GotoBlock"), Cmd("FleeDirection"),
      Timed("StartSprint", 0), Timed("StartSprint", 2), Timed("WalkForward", 1) }

\* struct ActiveAction
ActiveAction(cmd, ticks) == [command |-> cmd, ticks_remaining |-> ticks]

\* a countdown that takes one tick too many off
saturating_sub_more(a, b) == IF a >= b + 1 THEN a - b - 1 ELSE 0

\* u32::saturating_sub
saturating_sub(a, b) == IF a >= b THEN a - b ELSE 0

\* inject_fidgets without the test of the active slot
inject_fidgets_while_busy(q, act, nearby, look, sneak, jump) ==
    IF Len(q) > FidgetQueueCap
    THEN q
    ELSE LET q1 == IF look THEN Append(q, Cmd("RandomLook")) ELSE q
             q2 == IF nearby /\ sneak
                   THEN Append(q1, Timed("SneakPulse", FidgetSneakTicks))
                   ELSE q1
         IN IF jump THEN Append(q2, Cmd("Jump")) ELSE q2

\* inject_fidgets that puts its commands at the front of the queue
inject_fidgets_at_front(q, act, nearby, look, sneak, jump) ==
    IF act /= <<>> \/ Len(q) > FidgetQueueCap
    THEN q
    ELSE LET q1 == IF look THEN <<Cmd("RandomLook")>> \o q ELSE q
             q2 == IF nearby /\ sneak
                   THEN <<Timed("SneakPulse", FidgetSneakTicks)>> \o q1
                   ELSE q1
         IN IF jump THEN <<Cmd("Jump")>> \o q2 ELSE q2

\* inject_fidgets; look, sneak, jump are the three gen_bool draws
inject_fidgets(q, act, nearby, look, sneak, jump) ==
    IF act /= <<>> \/ Len(q) > FidgetQueueCap
    THEN q
    ELSE LET q1 == IF look THEN Append(q, Cmd("RandomLook")) ELSE q
             q2 == IF nearby /\ sneak
                   THEN Append(q1, Timed("SneakPulse", FidgetSneakTicks))
                   ELSE q1
         IN IF jump THEN Append(q2, Cmd("Jump")) ELSE q2

\* the gen_bool draws inject_fidgets makes: none after its early return, and
\* the sneak draw only behind nearby_players (&& short-circuits)
FidgetDraws(q, act, nearby) ==
    IF act /= <<>> \/ Len(q) > FidgetQueueCap
    THEN {<<FALSE, FALSE, FALSE>>}
    ELSE {<<look, sneak, jump>> : look \in BOOLEAN,
                                  sneak \in (IF nearby THEN BOOLEAN ELSE {FALSE}),
                                  jump \in BOOLEAN}

\* the action a dequeued command installs in the active slot (<<>> = none)
Installs(cmd) ==
    IF cmd.kind \in TimedKinds
    THEN <<ActiveAction(cmd, cmd.duration_ticks)>>
    ELSE IF cmd.kind = "FleeDirection"
    THEN <<ActiveAction(Timed("StartSprint", FleeTicks), FleeTicks)>>
    ELSE <<>>

\* a queue() that drops what is pending
PushBackReplacing(cmd, cap) ==
    /\ Len(command_queue) < cap
    /\ command_queue' = <<cmd>>
    /\ executed' = <<>>
    /\ completed' = <<>>
    /\ urgent_arg' = <<>>
    /\ motor_op' = "queue"
    /\ UNCHANGED <<active_action, nearby_players, is_sprinting, is_sneaking,
                   is_walking, ran_steps>>

\* MotorInner::queue: what it does to MotorInner, called with fewer than cap
\* commands pending
PushBack(cmd, cap) ==
    /\ Len(command_queue) < cap
    /\ command_queue' = Append(command_queue, cmd)
    /\ executed' = <<>>
    /\ completed' = <<>>
    /\ urgent_arg' = <<>>
    /\ motor_op' = "queue"
    /\ UNCHANGED <<active_action, nearby_players, is_sprinting, is_sneaking,
                   is_walking, ran_steps>>

\* MotorInner::queue with nothing else going on
QueueWithin(cmd, cap) ==
    /\ PushBack(cmd, cap)
    /\ UNCHANGED <<goal_vars, ledger_vars, spider_vars, task_vars, lock_vars>>

\* MotorInner::queue
Queue(cmd) == QueueWithin(cmd, MaxQueue)

\* queue_urgent that pushes at the back
QueueUrgentAtBack(cmd) ==
    /\ Len(command_queue) < MaxQueue
    /\ command_queue' = Append(command_queue, cmd)
    /\ executed' = <<>>
    /\ completed' = <<>>
    /\ urgent_arg' = <<cmd>>
    /\ motor_op' = "queue_urgent"
    /\ UNCHANGED <<active_action, nearby_players, is_sprinting, is_sneaking,
                   is_walking, ran_steps>>
    /\ UNCHANGED <<goal_vars, ledger_vars, spider_vars, task_vars, lock_vars>>

\* MotorInner::queue_urgent, called with fewer than cap commands pending
QueueUrgentWithin(cmd, cap) ==
    /\ Len(command_queue) < cap
    /\ command_queue' = <<cmd>> \o command_queue
    /\ executed' = <<>>
    /\ completed' = <<>>
    /\ urgent_arg' = <<cmd>>
    /\ motor_op' = "queue_urgent"
    /\ UNCHANGED <<active_action, nearby_players, is_sprinting, is_sneaking,
                   is_walking, ran_steps>>
    /\ UNCHANGED <<goal_vars, ledger_vars, spider_vars, task_vars, lock_vars>>

\* MotorInner::queue_urgent
QueueUrgent(cmd) == QueueUrgentWithin(cmd, MaxQueue)

\* MotorInner::clear_queue
ClearQueue ==
    /\ command_queue' = <<>>
    /\ active_action' = <<>>
    /\ ran_steps' = 0
    /\ executed' = <<>>
    /\ completed' = <<>>
    /\ urgent_arg' = <<>>
    /\ motor_op' = "clear_queue"
    /\ UNCHANGED <<nearby_players, is_sprinting, is_sneaking, is_walking>>
    /\ UNCHANGED <<goal_vars, ledger_vars, spider_vars, task_vars, lock_vars>>

\* bot.rs:168: motor.nearby_players = !world.nearby_players.is_empty()
SetNearbyPlayers(b) ==
    /\ nearby_players' = b
    /\ executed' = <<>>
    /\ completed' = <<>>
    /\ urgent_arg' = <<>>
    /\ motor_op' = "set_nearby_players"
    /\ UNCHANGED <<command_queue, active_action, is_sprinting, is_sneaking,
                   is_walking, ran_steps>>
    /\ UNCHANGED <<goal_vars, ledger_vars, spider_vars, task_vars, lock_vars>>

\* a countdown step that goes on to pop and execute the front command
StepCountdownDequeues(q0, remaining) ==
    /\ active_action' = <<[active_action[1] EXCEPT !.ticks_remaining = remaining]>>
    /\ ran_steps' = ran_steps + 1
    /\ command_queue' = (IF q0 = <<>> THEN q0 ELSE Tail(q0))
    /\ executed' = (IF q0 = <<>> THEN <<>> ELSE <<Head(q0)>>)
    /\ completed' = <<>>
    /\ UNCHANGED <<is_sprinting, is_sneaking, is_walking>>

\* step 2 of handle, the action still running: count down and return
StepCountdown(q0, remaining) ==
    /\ active_action' = <<[active_action[1] EXCEPT !.ticks_remaining = remaining]>>
    /\ ran_steps' = ran_steps + 1
    /\ command_queue' = q0
    /\ executed' = <<>>
    /\ completed' = <<>>
    /\ UNCHANGED <<is_sprinting, is_sneaking, is_walking>>

\* a step that returns after the clean-up of a finished action and dequeues
\* only with the slot empty from the start
StepDequeueWaits(q0, finished) ==
    LET done == IF finished THEN active_action[1].command.kind ELSE "none"
        sprint1 == IF done = "StartSprint" THEN FALSE ELSE is_sprinting
        sneak1 == IF done = "SneakPulse" THEN FALSE ELSE is_sneaking
    IN /\ completed' = (IF finished THEN <<active_action[1].command>> ELSE <<>>)
       /\ ran_steps' = 0
       /\ IF q0 = <<>> \/ finished
          THEN /\ command_queue' = q0
               /\ executed' = <<>>
               /\ active_action' = <<>>
               /\ is_sprinting' = sprint1
               /\ is_sneaking' = sneak1
               /\ UNCHANGED is_walking
          ELSE LET cmd == Head(q0)
               IN /\ command_queue' = Tail(q0)
                  /\ executed' = <<cmd>>
                  /\ active_action' = Installs(cmd)
                  /\ is_sprinting' = (IF cmd.kind \in {"StartSprint", "FleeDirection"}
                                      THEN TRUE ELSE sprint1)
                  /\ is_sneaking' = (IF cmd.kind = "SneakPulse" THEN TRUE ELSE sneak1)
                  /\ is_walking' = (IF cmd.kind \in GotoKinds THEN TRUE ELSE is_walking)

\* steps 2 and 3 of handle with the slot empty or the action finishing: the
\* clean-up of a finished action, then pop and execute the front command
StepDequeue(q0, finished) ==
    LET done == IF finished THEN active_action[1].command.kind ELSE "none"
        sprint1 == IF done = "StartSprint" THEN FALSE ELSE is_sprinting
        sneak1 == IF done = "SneakPulse" THEN FALSE ELSE is_sneaking
    IN /\ completed' = (IF finished THEN <<active_action[1].command>> ELSE <<>>)
       /\ ran_steps' = 0
       /\ IF q0 = <<>>
          THEN /\ command_queue' = q0
               /\ executed' = <<>>
               /\ active_action' = <<>>
               /\ is_sprinting' = sprint1
               /\ is_sneaking' = sneak1
               /\ UNCHANGED is_walking
          ELSE LET cmd == Head(q0)
               IN /\ command_queue' = Tail(q0)
                  /\ executed' = <<cmd>>
                  /\ active_action' = Installs(cmd)
                  /\ is_sprinting' = (IF cmd.kind \in {"StartSprint", "FleeDirection"}
                                      THEN TRUE ELSE sprint1)
                  /\ is_sneaking' = (IF cmd.kind = "SneakPulse" THEN TRUE ELSE sneak1)
                  /\ is_walking' = (IF cmd.kind \in GotoKinds THEN TRUE ELSE is_walking)

\* handle: what one executor step (one Event::Tick) does to MotorInner, under
\* the motor lock, with at most cap commands pending once the fidgets are in
ExecutorStep(look, sneak, jump, cap) ==
    LET q0 == inject_fidgets(command_queue, active_action, nearby_players,
                             look, sneak, jump)
        running == active_action /= <<>>
        remaining == IF running
                     THEN saturating_sub(active_action[1].ticks_remaining, 1)
                     ELSE 0
    IN /\ Len(q0) <= cap
       /\ IF running /\ remaining /= 0
          THEN StepCountdown(q0, remaining)
          ELSE StepDequeue(q0, running)
       /\ urgent_arg' = (IF motor_op = "queue_urgent" THEN urgent_arg ELSE <<>>)
       /\ motor_op' = "step"
       /\ UNCHANGED nearby_players

\* handle: one executor step with nothing else going on
MotorStepWithin(look, sneak, jump, cap) ==
    /\ ExecutorStep(look, sneak, jump, cap)
    /\ UNCHANGED <<goal_vars, ledger_vars, spider_vars, task_vars, lock_vars>>

\* handle: one executor step
MotorStep(look, sneak, jump) == MotorStepWithin(look, sneak, jump, MaxQueue)

\* handle with the fidget draws it makes
Handle ==
    \E draw \in FidgetDraws(command_queue, active_action, nearby_players) :
        MotorStep(draw[1], draw[2], draw[3])

\* MotorInner::default
MotorInit ==
    /\ command_queue = <<>>
    /\ active_action = <<>>
    /\ nearby_players = FALSE
    /\ is_sprinting = FALSE
    /\ is_sneaking = FALSE
    /\ is_walking = FALSE
    /\ executed = <<>>
    /\ completed = <<>>
    /\ ran_steps = 0
    /\ urgent_arg = <<>>
    /\ motor_op = "default"

MotorNext ==
    \/ \E cmd \in MotorInputs : Queue(cmd)
    \/ \E cmd \in MotorInputs : QueueUrgent(cmd)
    \/ ClearQueue
    \/ \E b \in BOOLEAN : SetNearbyPlayers(b)
    \/ Handle

\* the command the producers queue where the fidget cap is exercised: a timed
\* command of a single tick
PendingInputs == { Timed("WalkForward", 1) }

\* handle with the three gen_bool outcomes as free inputs: inject_fidgets
\* alone decides whether an outcome is used.  Injection stops above
\* FidgetQueueCap and adds at most three commands, so the cap of the step
\* never binds.
FidgetStep ==
    \E look \in BOOLEAN, sneak \in BOOLEAN, jump \in BOOLEAN :
        MotorStepWithin(look, sneak, jump, FidgetQueueCap + 3)

\* the executor under producers that fill the queue up to and beyond the cap
\* of inject_fidgets
FidgetNext ==
    \/ \E cmd \in PendingInputs : QueueWithin(cmd, MaxPending)
    \/ \E b \in BOOLEAN : SetNearbyPlayers(b)
    \/ FidgetStep

(***************************************************************************)
(* Economy: per-player ledgers and the credit score                        *)
(* favors and trade_count (never written), total_trades (a statistic) and  *)
(* the reason text of a debt are left out.                                 *)
(***************************************************************************)
Players == {"ana", "bia"}

\* Economy::new: item_values ("stick" stands for an item not in the table)
Items == {"diamond", "coal", "iron_ingot", "emerald", "netherite_ingot", "stick"}
KnownItems == {"diamond", "coal", "iron_ingot", "emerald", "netherite_ingot"}
item_values ==
    [i \in KnownItems |->
        CASE i = "diamond" -> 10
          [] i = "coal" -> 0
          [] i = "iron_ingot" -> 1
          [] i = "emerald" -> 8
          [] i = "netherite_ingot" -> 50]

\* the items and quantities record_gift / record_received are called with
GiftItems == {"diamond"}
ReceivedItems == {"diamond", "coal"}
TradedItems == GiftItems \cup ReceivedItems
Quantities == {1, 40}
\* the clock advances by 24 or 25 hours: a debt aged 24 h is not yet old, one
\* aged 25 h is
ClockSteps == {24, 25}

\* the age in hours above which an unpaid debt counts as old
OldDebtHours == 24
ScoreMin == -100
ScoreMax == 100

\* PlayerLedger::default
DefaultLedger ==
    [debts_owed_to_us |-> <<>>, debts_we_owe |-> <<>>,
     total_given_to_them |-> [i \in TradedItems |-> 0],
     total_received_from_them |-> [i \in TradedItems |-> 0],
     credit_score |-> 0]

\* Economy::get_ledger: entry(player).or_insert_with(PlayerLedger::default)
get_ledger(player) ==
    IF ledgers[player] = <<>> THEN DefaultLedger ELSE ledgers[player][1]

SumQuantity(debts, paid) ==
    LET RECURSIVE Sum(_)
        Sum(n) == IF n = 0 THEN 0
                  ELSE (IF debts[n].paid = paid THEN debts[n].quantity ELSE 0)
                       + Sum(n - 1)
    IN Sum(Len(debts))

\* i32::clamp
clamp(x, lo, hi) == IF x < lo THEN lo ELSE IF x > hi THEN hi ELSE x

\* the value PlayerLedger::update_credit_score stores when run at hour t
credit_score_at(l, t) ==
    LET unpaid_debts == SumQuantity(l.debts_owed_to_us, FALSE)
        paid_debts == SumQuantity(l.debts_owed_to_us, TRUE)
        old_debts == Cardinality({n \in 1..Len(l.debts_owed_to_us) :
                         /\ ~l.debts_owed_to_us[n].paid
                         /\ t - l.debts_owed_to_us[n].created_at > OldDebtHours})
    IN clamp(paid_debts * 5 - unpaid_debts * 3 - old_debts * 10, ScoreMin, ScoreMax)

\* PlayerLedger::update_credit_score
update_credit_score(l) == [l EXCEPT !.credit_score = credit_score_at(l, now)]

\* sum of f[p] over the players in S
RECURSIVE SumOver(_, _)
SumOver(f, S) ==
    IF S = {} THEN 0
    ELSE LET p == CHOOSE x \in S : TRUE IN f[p] + SumOver(f, S \ {p})

TotalDebts ==
    SumOver([p \in Players |-> Len(get_ledger(p).debts_owed_to_us)], Players)

TotalReceived ==
    SumOver([p \in Players |->
                SumOver(get_ledger(p).total_received_from_them, TradedItems)],
            Players)

\* Economy::record_gift
RecordGift(player, item, quantity) ==
    /\ TotalDebts < MaxDebts
    /\ LET l0 == get_ledger(player)
           l1 == [l0 EXCEPT !.total_given_to_them[item] = @ + quantity,
                            !.debts_owed_to_us = Append(@,
                                [item |-> item, quantity |-> quantity,
                                 created_at |-> now, paid |-> FALSE])]
       IN ledgers' = [ledgers EXCEPT ![player] = <<update_credit_score(l1)>>]
    /\ ledger_op' = "record_gift"
    /\ request' = <<>>
    /\ decision' = <<>>
    /\ received' = <<>>
    /\ UNCHANGED now
    /\ UNCHANGED <<goal_vars, motor_vars, spider_vars, task_vars, lock_vars>>

\* a loop that marks a debt paid with whatever is left, covered or not
RECURSIVE MarkPaidUncovered(_, _, _, _)
MarkPaidUncovered(debts, item, remaining, n) ==
    IF n > Len(debts) THEN debts
    ELSE IF ~debts[n].paid /\ debts[n].item = item /\ remaining > 0
    THEN MarkPaidUncovered([debts EXCEPT ![n].paid = TRUE], item,
                           saturating_sub(remaining, debts[n].quantity), n + 1)
    ELSE MarkPaidUncovered(debts, item, remaining, n + 1)

\* a loop that does not look at the item of a debt
RECURSIVE MarkPaidAnyItem(_, _, _, _)
MarkPaidAnyItem(debts, item, remaining, n) ==
    IF n > Len(debts) THEN debts
    ELSE IF ~debts[n].paid /\ remaining >= debts[n].quantity
    THEN MarkPaidAnyItem([debts EXCEPT ![n].paid = TRUE], item,
                         remaining - debts[n].quantity, n + 1)
    ELSE MarkPaidAnyItem(debts, item, remaining, n + 1)

\* the loop of record_received over debts_we_owe, from position n on
RECURSIVE MarkPaid(_, _, _, _)
MarkPaid(debts, item, remaining, n) ==
    IF n > Len(debts) THEN debts
    ELSE IF ~debts[n].paid /\ debts[n].item = item /\ remaining >= debts[n].quantity
    THEN MarkPaid([debts EXCEPT ![n].paid = TRUE], item,
                  remaining - debts[n].quantity, n + 1)
    ELSE MarkPaid(debts, item, remaining, n + 1)

\* Economy::record_received, with at most cap items received in total
ReceiveWithin(player, item, quantity, cap) ==
    /\ TotalReceived + quantity <= cap
    /\ LET l0 == get_ledger(player)
           l1 == [l0 EXCEPT !.total_received_from_them[item] = @ + quantity,
                            !.debts_we_owe = MarkPaid(@, item, quantity, 1)]
       IN ledgers' = [ledgers EXCEPT ![player] = <<update_credit_score(l1)>>]
    /\ ledger_op' = "record_received"
    /\ request' = <<>>
    /\ decision' = <<>>
    /\ received' = <<[player |-> player, item |-> item, quantity |-> quantity]>>
    /\ UNCHANGED now
    /\ UNCHANGED <<goal_vars, motor_vars, spider_vars, task_vars, lock_vars>>

\* Economy::record_received
RecordReceived(player, item, quantity) ==
    ReceiveWithin(player, item, quantity, MaxReceived)

\* struct Debt, unpaid
Debt(item, quantity) ==
    [item |-> item, quantity |-> quantity, created_at |-> now, paid |-> FALSE]

TotalOwed ==
    SumOver([p \in Players |-> Len(get_ledger(p).debts_we_owe)], Players)

\* a Debt pushed onto the public field debts_we_owe of the player's ledger
\* (no method of Economy writes the field)
OweDebt(player, item, quantity) ==
    /\ TotalOwed < MaxOwed
    /\ LET l0 == get_ledger(player)
           l1 == [l0 EXCEPT !.debts_we_owe = Append(@, Debt(item, quantity))]
       IN ledgers' = [ledgers EXCEPT ![player] = <<l1>>]
    /\ ledger_op' = "owe"
    /\ request' = <<>>
    /\ decision' = <<>>
    /\ received' = <<>>
    /\ UNCHANGED now
    /\ UNCHANGED <<goal_vars, motor_vars, spider_vars, task_vars, lock_vars>>

\* time passes between two calls
AdvanceClock(hours) ==
    /\ now + hours <= MaxHours
    /\ now' = now + hours
    /\ ledger_op' = "clock"
    /\ request' = <<>>
    /\ decision' = <<>>
    /\ received' = <<>>
    /\ UNCHANGED ledgers
    /\ UNCHANGED <<goal_vars, motor_vars, spider_vars, task_vars, lock_vars>>

\* enum TradeDecision, with the number the remark cites
Decision(kind, cited) == [kind |-> kind, cited |-> cited]

\* a u32 is kept as two 16-bit halves
TwoTo16 == 65536

\* the u32 product a * b (a < 2^15, b < 2^31) modulo 2^32, as halves, and
\* whether the mathematical product exceeds 32 bits
u32_mul(a, b) ==
    LET low == a * (b % TwoTo16)
        high == a * (b \div TwoTo16) + low \div TwoTo16
    IN [hi |-> high % TwoTo16, lo |-> low % TwoTo16, overflow |-> high >= TwoTo16]

\* the items and quantities evaluate_request is asked for: a fair, a cheap, a
\* rich and an unknown item; 3 diamonds or emeralds pass the richness
\* threshold, and 8 * 2^29 = 2^32
RequestItems == {"diamond", "coal", "emerald", "stick"}
RequestQuantities == {1, 3, 536870912}

\* evaluate_request with the remark of a refusal citing the number of unpaid
\* debts
evaluate_request_cites_count(player, item, quantity) ==
    IF ledgers[player] = <<>> THEN Decision("Cautious", 0)
    ELSE LET ledger == ledgers[player][1]
             unpaid_count == Cardinality({n \in 1..Len(ledger.debts_owed_to_us) :
                                 ~ledger.debts_owed_to_us[n].paid})
             value == u32_mul(IF item \in KnownItems THEN item_values[item] ELSE 1,
                              quantity)
         IN IF ledger.credit_score < -20 THEN Decision("Refuse", unpaid_count)
            ELSE IF unpaid_count > 2 THEN Decision("Negotiate", unpaid_count)
            ELSE IF value.hi > 0 \/ value.lo > 20 THEN Decision("Negotiate", quantity)
            ELSE IF value.hi = 0 /\ value.lo = 0 THEN Decision("Accept", 0)
            ELSE IF ledger.credit_score > 30 THEN Decision("Accept", 0)
            ELSE Decision("Negotiate", 0)

\* evaluate_request refusing every counterparty of negative credit_score
evaluate_request_below_zero(player, item, quantity) ==
    IF ledgers[player] = <<>> THEN Decision("Cautious", 0)
    ELSE LET ledger == ledgers[player][1]
             unpaid == SumQuantity(ledger.debts_owed_to_us, FALSE)
             unpaid_count == Cardinality({n \in 1..Len(ledger.debts_owed_to_us) :
                                 ~ledger.debts_owed_to_us[n].paid})
             value == u32_mul(IF item \in KnownItems THEN item_values[item] ELSE 1,
                              quantity)
         IN IF ledger.credit_score < 0 THEN Decision("Refuse", unpaid)
            ELSE IF unpaid_count > 2 THEN Decision("Negotiate", unpaid_count)
            ELSE IF value.hi > 0 \/ value.lo > 20 THEN Decision("Negotiate", quantity)
            ELSE IF value.hi = 0 /\ value.lo = 0 THEN Decision("Accept", 0)
            ELSE IF ledger.credit_score > 30 THEN Decision("Accept", 0)
            ELSE Decision("Negotiate", 0)

\* Economy::evaluate_request (&self): the decision and the number its remark
\* cites; the u32 product wraps
evaluate_request(player, item, quantity) ==
    IF ledgers[player] = <<>> THEN Decision("Cautious", 0)
    ELSE LET ledger == ledgers[player][1]
             unpaid == SumQuantity(ledger.debts_owed_to_us, FALSE)
             unpaid_count == Cardinality({n \in 1..Len(ledger.debts_owed_to_us) :
                                 ~ledger.debts_owed_to_us[n].paid})
             value == u32_mul(IF item \in KnownItems THEN item_values[item] ELSE 1,
                              quantity)
         IN IF ledger.credit_score < -20 THEN Decision("Refuse", unpaid)
            ELSE IF unpaid_count > 2 THEN Decision("Negotiate", unpaid_count)
            ELSE IF value.hi > 0 \/ value.lo > 20 THEN Decision("Negotiate", quantity)
            ELSE IF value.hi = 0 /\ value.lo = 0 THEN Decision("Accept", 0)
            ELSE IF ledger.credit_score > 30 THEN Decision("Accept", 0)
            ELSE Decision("Negotiate", 0)

\* a call of evaluate_request
EvaluateRequest(player, item, quantity) ==
    /\ request' = <<[player |-> player, item |-> item, quantity |-> quantity]>>
    /\ received' = <<>>
    /\ decision' = <<evaluate_request(player, item, quantity)>>
    /\ ledger_op' = "evaluate_request"
    /\ UNCHANGED <<ledgers, now>>
    /\ UNCHANGED <<goal_vars, motor_vars, spider_vars, task_vars, lock_vars>>

\* Economy::new
LedgerInit ==
    /\ ledgers = [p \in Players |-> <<>>]
    /\ now = 0
    /\ request = <<>>
    /\ decision = <<>>
    /\ received = <<>>
    /\ ledger_op = "new"

LedgerNext ==
    \/ \E p \in Players, i \in GiftItems, q \in Quantities : RecordGift(p, i, q)
    \/ \E p \in Players, i \in ReceivedItems, q \in Quantities :
          RecordReceived(p, i, q)
    \/ \E h \in ClockSteps : AdvanceClock(h)

\* the ledger operations together with the requests: the gifts go to one
\* counterparty, the other one stays unknown to the ledger; the clock advances
\* by 25 hours
Debtor == "ana"
TradeNext ==
    \/ \E i \in GiftItems, q \in Quantities : RecordGift(Debtor, i, q)
    \/ \E i \in ReceivedItems, q \in Quantities : RecordReceived(Debtor, i, q)
    \/ AdvanceClock(OldDebtHours + 1)
    \/ \E p \in Players, i \in RequestItems, q \in RequestQuantities :
          EvaluateRequest(p, i, q)

\* the quantities of the diamond debts the bot owes and of what it then
\* receives
OwedQuantities == {1, 2}
SettleQuantities == {1, 3}

\* record_received where the bot owes debts: diamond debts and coal debts
\* owed to one counterparty, a first gift that leaves that counterparty with
\* a debt owed to the bot, and the receipts from that counterparty and from
\* one the ledger has not seen
SettleNext ==
    \/ \E q \in OwedQuantities : OweDebt(Debtor, "diamond", q)
    \/ OweDebt(Debtor, "coal", 1)
    \/ get_ledger(Debtor).debts_owed_to_us = <<>> /\ RecordGift(Debtor, "diamond", 1)
    \/ \E p \in Players, i \in ReceivedItems, q \in SettleQuantities :
          ReceiveWithin(p, i, q, MaxSettled)

(***************************************************************************)
(* SpiderSense: the threat evaluators and the rolling list of predictions  *)
(* (src/src/systems/spider_sense.rs).  Item and block names are strings    *)
(* tested with str::contains, so a name is kept as its sequence of         *)
(* characters.  f64 / f32 distances and health are whole numbers here.     *)
(***************************************************************************)
\* str::contains: needle occurs in hay as a contiguous run
contains(hay, needle) ==
    \E i \in 0..(Len(hay) - Len(needle)) :
        SubSeq(hay, i + 1, i + Len(needle)) = needle

\* predict_player_threat: dangerous_items
dangerous_items ==
    << <<"l", "a", "v", "a", "_", "b", "u", "c", "k", "e", "t">>,
       <<"f", "l", "i", "n", "t", "_", "a", "n", "d", "_", "s", "t", "e", "e", "l">>,
       <<"t", "n", "t">>,
       <<"f", "i", "r", "e", "_", "c", "h", "a", "r", "g", "e">>,
       <<"e", "n", "d", "_", "c", "r", "y", "s", "t", "a", "l">>,
       <<"r", "e", "s", "p", "a", "w", "n", "_", "a", "n", "c", "h", "o", "r">> >>

\* predict_player_threat: weapons
weapons ==
    << <<"d", "i", "a", "m", "o", "n", "d", "_", "s", "w", "o", "r", "d">>,
       <<"n", "e", "t", "h", "e", "r", "i", "t", "e", "_", "s", "w", "o", "r", "d">>,
       <<"i", "r", "o", "n", "_", "s", "w", "o", "r", "d">>,
       <<"b", "o", "w">>,
       <<"c", "r", "o", "s", "s", "b", "o", "w">>,
       <<"t", "r", "i", "d", "e", "n", "t">> >>

\* predict_mining_danger: falling_blocks
falling_blocks ==
    << <<"g", "r", "a", "v", "e", "l">>,
       <<"s", "a", "n", "d">>,
       <<"r", "e", "d", "_", "s", "a", "n", "d">>,
       <<"a", "n", "v", "i", "l">>,
       <<"d", "r", "a", "g", "o", "n", "_", "e", "g", "g">> >>

\* the names the evaluators are called with
tnt == <<"t", "n", "t">>
bow == <<"b", "o", "w">>
bowl == <<"b", "o", "w", "l">>
stick == <<"s", "t", "i", "c", "k">>
gravel == <<"g", "r", "a", "v", "e", "l">>
stone == <<"s", "t", "o", "n", "e">>
dirt == <<"d", "i", "r", "t">>
unknown == <<"u", "n", "k", "n", "o", "w", "n">>

\* iter().any(|i| held_item.contains(i))
any_contained(names, held) == \E n \in 1..Len(names) : contains(held, names[n])

\* struct PredictedThreat; the description is the tuple of the values
\* format! puts in it
PredictedThreat(threat_type, level, description, action, ms) ==
    [threat_type |-> threat_type, level |-> level, description |-> description,
     recommended_action |-> action, time_to_impact_ms |-> ms]

\* PredictedAction::WarnChat(String) and the payload-free actions
WarnChat(text) == <<"WarnChat", text>>
Action(name) == <<name>>

\* the struct the evaluators get as &self
SpiderSelf ==
    [active_predictions |-> active_predictions,
     predictions_made |-> predictions_made,
     predictions_correct |-> predictions_correct,
     accuracy |-> accuracy]

\* SpiderSense::default; accuracy (f32) is kept as <<numerator, denominator>>
DefaultSpider ==
    [active_predictions |-> <<>>, predictions_made |-> 0,
     predictions_correct |-> 0, accuracy |-> <<0, 1>>]

\* SpiderSense::predict_player_threat
predict_player_threat(self, player, held_item, distance, approaching, trust) ==
    LET is_dangerous_item == any_contained(dangerous_items, held_item)
        is_weapon == any_contained(weapons, held_item)
    IN IF trust < -20 /\ is_dangerous_item /\ approaching /\ distance < 30
       THEN <<PredictedThreat("PlayerGriefing", "Critical",
                              <<player, trust, held_item, distance>>,
                              Action("AttackFirst"), distance * 200)>>
       ELSE IF trust < 10 /\ is_weapon /\ approaching /\ distance < 20
       THEN <<PredictedThreat("PlayerAmbush", "High", <<player, held_item>>,
                              IF distance < 8 THEN Action("AttackFirst")
                                              ELSE Action("Sprint"),
                              distance * 200)>>
       ELSE IF trust = 20 /\ distance < 15 /\ is_weapon
       THEN <<PredictedThreat("PlayerAmbush", "Medium", <<player, held_item>>,
                              WarnChat(<<player, held_item>>), 5000)>>
       ELSE <<>>

\* SpiderSense::predict_mining_danger
predict_mining_danger(self, block_above, is_mining_up) ==
    IF is_mining_up /\ any_contained(falling_blocks, block_above)
    THEN <<PredictedThreat("SuffocationMining", "High", <<block_above>>,
                           Action("PlaceTorch"), 500)>>
    ELSE IF block_above = stone /\ is_mining_up
    THEN <<PredictedThreat("LavaFlow", "Low", <<>>, Action("PlaceBlock"), 2000)>>
    ELSE <<>>

\* predict_starvation reporting a starvation threat once only
predict_starvation_once(self, food_level, hp, has_food) ==
    IF \E n \in 1..Len(self.active_predictions) :
          self.active_predictions[n].threat_type = "StarvationDeath"
    THEN <<>>
    ELSE IF food_level <= 6 /\ hp < 10 /\ ~has_food
    THEN <<PredictedThreat("StarvationDeath",
                           IF hp < 4 THEN "Critical" ELSE "High",
                           <<food_level, hp>>, Action("EatNow"),
                           IF hp < 4 THEN 2000 ELSE 10000)>>
    ELSE IF food_level <= 6 /\ has_food
    THEN <<PredictedThreat("StarvationDeath", "Medium", <<>>,
                           Action("EatNow"), 5000)>>
    ELSE <<>>

\* SpiderSense::predict_starvation
predict_starvation(self, food_level, hp, has_food) ==
    IF food_level <= 6 /\ hp < 10 /\ ~has_food
    THEN <<PredictedThreat("StarvationDeath",
                           IF hp < 4 THEN "Critical" ELSE "High",
                           <<food_level, hp>>, Action("EatNow"),
                           IF hp < 4 THEN 2000 ELSE 10000)>>
    ELSE IF food_level <= 6 /\ has_food
    THEN <<PredictedThreat("StarvationDeath", "Medium", <<>>,
                           Action("EatNow"), 5000)>>
    ELSE <<>>

\* SpiderSense::predict_creeper_explosion
predict_creeper_explosion(self, creeper_distance, creeper_fuse_started) ==
    IF creeper_fuse_started /\ creeper_distance < 5
    THEN <<PredictedThreat("CreeperExplosion", "Critical", <<creeper_distance>>,
                           Action("Sprint"), 1500)>>
    ELSE IF creeper_distance < 3 /\ ~creeper_fuse_started
    THEN <<PredictedThreat("CreeperExplosion", "High", <<>>,
                           Action("Sprint"), 3000)>>
    ELSE <<>>

\* most_urgent: the key of min_by_key
ThreatRank(level) ==
    CASE level = "Critical" -> 0
      [] level = "High" -> 1
      [] level = "Medium" -> 2
      [] level = "Low" -> 3
      [] level = "None" -> 4

\* a min_by_key that keeps the last of several equal minima
most_urgent_last(self) ==
    LET ps == self.active_predictions
    IN IF ps = <<>> THEN 0
       ELSE CHOOSE i \in 1..Len(ps) :
               \A j \in 1..Len(ps) :
                   \/ ThreatRank(ps[i].level) < ThreatRank(ps[j].level)
                   \/ (ThreatRank(ps[i].level) = ThreatRank(ps[j].level) /\ i >= j)

\* SpiderSense::most_urgent: the position of the prediction returned, 0 = None
\* (Iterator::min_by_key returns the first of several equal minima)
most_urgent(self) ==
    LET ps == self.active_predictions
    IN IF ps = <<>> THEN 0
       ELSE CHOOSE i \in 1..Len(ps) :
               \A j \in 1..Len(ps) :
                   \/ ThreatRank(ps[i].level) < ThreatRank(ps[j].level)
                   \/ (ThreatRank(ps[i].level) = ThreatRank(ps[j].level) /\ i <= j)

\* record_prediction: more than 10 stored predictions drop the oldest 5
PredictionCap == 10
PredictionDrain == 5

\* the inputs the evaluators are called with: values on both sides of every
\* threshold
TrustInputs == {-21, -20, 9, 10, 20}
DistanceInputs == {7, 8, 14, 15, 19, 20, 29, 30}
HeldItems == {tnt, bow, bowl, stick}
BlockInputs == {gravel, stone, dirt}
FoodInputs == {6, 7}
HpInputs == {3, 4, 9, 10}
CreeperDistances == {2, 3, 4, 5}

\* the predictions record_prediction is called with: a creeper about to
\* explode (Critical), gravel overhead (High), possible lava (Low)
CreeperThreat == predict_creeper_explosion(DefaultSpider, 2, TRUE)[1]
GravelThreat == predict_mining_danger(DefaultSpider, gravel, TRUE)[1]
LavaThreat == predict_mining_danger(DefaultSpider, stone, TRUE)[1]
RecordedThreats == {CreeperThreat, GravelThreat, LavaThreat}

\* a call of an evaluator (&self): its arguments and its result are noted
Evaluated(fn, args, result) ==
    /\ spider_call' = <<[fn |-> fn, args |-> args]>>
    /\ spider_result' = result
    /\ spider_op' = fn
    /\ UNCHANGED <<active_predictions, predictions_made, predictions_correct,
                   accuracy>>
    /\ UNCHANGED <<goal_vars, motor_vars, ledger_vars, tick_commands,
                   task_vars, lock_vars>>

PredictPlayerThreat(player, held_item, distance, approaching, trust) ==
    Evaluated("predict_player_threat",
              <<player, held_item, distance, approaching, trust>>,
              predict_player_threat(SpiderSelf, player, held_item, distance,
                                    approaching, trust))

PredictMiningDanger(block_above, is_mining_up) ==
    Evaluated("predict_mining_danger", <<block_above, is_mining_up>>,
              predict_mining_danger(SpiderSelf, block_above, is_mining_up))

PredictStarvation(food_level, hp, has_food) ==
    Evaluated("predict_starvation", <<food_level, hp, has_food>>,
              predict_starvation(SpiderSelf, food_level, hp, has_food))

PredictCreeperExplosion(creeper_distance, creeper_fuse_started) ==
    Evaluated("predict_creeper_explosion",
              <<creeper_distance, creeper_fuse_started>>,
              predict_creeper_explosion(SpiderSelf, creeper_distance,
                                        creeper_fuse_started))

\* a call of most_urgent (&self)
MostUrgent ==
    /\ spider_call' = <<>>
    /\ spider_result' = most_urgent(SpiderSelf)
    /\ spider_op' = "most_urgent"
    /\ UNCHANGED <<active_predictions, predictions_made, predictions_correct,
                   accuracy>>
    /\ UNCHANGED <<goal_vars, motor_vars, ledger_vars, tick_commands,
                   task_vars, lock_vars>>

\* SpiderSense::record_prediction
RecordPrediction(threat) ==
    /\ predictions_made < MaxRecorded
    /\ predictions_made' = predictions_made + 1
    /\ LET pushed == Append(active_predictions, threat)
       IN active_predictions' =
             IF Len(pushed) > PredictionCap
             THEN SubSeq(pushed, PredictionDrain + 1, Len(pushed))
             ELSE pushed
    /\ spider_call' = <<>>
    /\ spider_result' = <<>>
    /\ spider_op' = "record_prediction"
    /\ UNCHANGED <<predictions_correct, accuracy>>
    /\ UNCHANGED <<goal_vars, motor_vars, ledger_vars, tick_commands,
                   task_vars, lock_vars>>

\* SpiderSense::record_correct
RecordCorrect ==
    /\ predictions_correct < MaxCorrect
    /\ predictions_correct' = predictions_correct + 1
    /\ accuracy' = <<predictions_correct + 1,
                     IF predictions_made > 1 THEN predictions_made ELSE 1>>
    /\ spider_call' = <<>>
    /\ spider_result' = <<>>
    /\ spider_op' = "record_correct"
    /\ UNCHANGED <<active_predictions, predictions_made>>
    /\ UNCHANGED <<goal_vars, motor_vars, ledger_vars, tick_commands,
                   task_vars, lock_vars>>

\* SpiderSense::default
SpiderInit ==
    /\ active_predictions = <<>>
    /\ predictions_made = 0
    /\ predictions_correct = 0
    /\ accuracy = <<0, 1>>
    /\ spider_call = <<>>
    /\ spider_result = <<>>
    /\ spider_op = "default"
    /\ tick_commands = <<>>

\* predict_player_threat on its own, over all the inputs
PlayerThreatNext ==
    \E p \in Players, h \in HeldItems, d \in DistanceInputs, a \in BOOLEAN,
       t \in TrustInputs : PredictPlayerThreat(p, h, d, a, t)

\* the evaluators, called at any time between record_prediction and
\* record_correct calls (predict_player_threat with an approaching player
\* holding tnt or a bow, near or far, hostile or unknown)
ThreatNext ==
    \/ \E h \in {tnt, bow}, d \in {7, 29}, t \in {-21, 20} :
          PredictPlayerThreat("ana", h, d, TRUE, t)
    \/ \E b \in BlockInputs, up \in BOOLEAN : PredictMiningDanger(b, up)
    \/ \E f \in FoodInputs, hp \in HpInputs, has \in BOOLEAN :
          PredictStarvation(f, hp, has)
    \/ \E d \in CreeperDistances, fuse \in BOOLEAN : PredictCreeperExplosion(d, fuse)
    \/ RecordPrediction(predict_starvation(DefaultSpider, 6, 3, FALSE)[1])
    \/ RecordCorrect

\* the rolling list of predictions and its ranking
RankingNext ==
    \/ \E t \in RecordedThreats : RecordPrediction(t)
    \/ MostUrgent


(***************************************************************************)
(* The spider-sense section of the tick handler (bot.rs:100-169): every    *)
(* nearby player is evaluated in list order, then starvation; each record  *)
(* is translated into a motor command at once, under the motor lock.  The  *)
(* section reads the held item, the distance, the approach flag and the    *)
(* food / health values from the entity data; the revision modelled passes *)
(* the placeholders "unknown", 15.0, true and 20, 20.0, true until that    *)
(* data is read, so these readings are inputs of the action.               *)
\* the command whose way through the queue is followed, queued while no
\* copy of it is pending; the command the other producers queue, and the
\* one queued at the front
Followed == Cmd("Chat")
PendingAt(q, cmd) == {n \in 1..Len(q) : q[n] = cmd}
UrgentInputs == { Timed("StartSprint", 2) }

\* handle with the gen_bool outcomes that leave at most one command more
\* than the producers may have pending (no fidget is always among them)
PendingStep ==
    \E look \in BOOLEAN, sneak \in BOOLEAN, jump \in BOOLEAN :
        MotorStepWithin(look, sneak, jump, MaxQueue + 1)

\* the executor with producers at both ends of the queue, the fidgets
\* included
PendingNext ==
    \/ PendingAt(command_queue, Followed) = {} /\ QueueWithin(Followed, MaxQueue)
    \/ \E cmd \in PendingInputs : QueueWithin(cmd, MaxQueue)
    \/ \E cmd \in UrgentInputs : QueueUrgentWithin(cmd, MaxQueue)
    \/ \E b \in BOOLEAN : SetNearbyPlayers(b)
    \/ PendingStep

(***************************************************************************)
\* commands with their text: Log(String), Chat(String)
LogCmd(text) == [kind |-> "Log", duration_ticks |-> 0, text |-> text]
ChatCmd(text) == [kind |-> "Chat", duration_ticks |-> 0, text |-> text]

\* StartSprint { duration_ticks: 40 } queued for PredictedAction::Sprint
SpiderSprintTicks == 40

\* a reading of one nearby player
Reading(held_item, distance, approaching, trust) ==
    [held_item |-> held_item, distance |-> distance,
     approaching |-> approaching, trust |-> trust]

\* the placeholder reading of an unknown player (trust defaults to 20), a
\* hostile player closing in with tnt, a distrusted player closing in with a
\* bow, an unknown player standing close with a bow
PlayerReadings ==
    { Reading(unknown, 15, TRUE, 20), Reading(tnt, 15, TRUE, -21),
      Reading(bow, 15, TRUE, 9), Reading(bow, 14, FALSE, 20) }

\* <<food_level, hp, has_food>>: the placeholder and a starving bot
StarvationReadings == { <<20, 20, TRUE>>, <<6, 9, FALSE>> }

\* world.nearby_players
NearbyLists == { <<>>, <<"ana">>, <<"ana", "bia">>, <<"bia", "ana">> }

\* the translation of a player's threat record: <<command, urgent>> or <<>>
TranslatePlayerThreat(threat, player) ==
    LET action == threat.recommended_action
    IN CASE action = Action("Sprint") ->
                <<Timed("StartSprint", SpiderSprintTicks), TRUE>>
         [] action = Action("AttackFirst") -> <<LogCmd(<<"ATTACK", player>>), TRUE>>
         [] action[1] = "WarnChat" -> <<ChatCmd(action[2]), FALSE>>
         [] action = Action("PlaceTorch") -> <<LogCmd(<<"PLACE TORCH">>), TRUE>>
         [] action = Action("EatNow") -> <<LogCmd(<<"EAT NOW">>), TRUE>>
         [] OTHER -> <<>>

\* the translation of the starvation record: queued only when Critical or High
TranslateStarvation(threat) ==
    IF threat.level = "Critical" \/ threat.level = "High"
    THEN <<LogCmd(<<"STARVATION", threat.description>>), TRUE>>
    ELSE <<>>

\* the translations of one run of the section, in the order they are made:
\* [rank, cmd, urgent] for every record that is translated into a command
RECURSIVE PlayerTranslations(_, _, _)
PlayerTranslations(nearby, sense, n) ==
    IF n > Len(nearby) THEN <<>>
    ELSE LET player == nearby[n]
             r == sense[player]
             threat == predict_player_threat(SpiderSelf, player, r.held_item,
                                             r.distance, r.approaching, r.trust)
             t == IF threat = <<>> THEN <<>>
                  ELSE TranslatePlayerThreat(threat[1], player)
         IN (IF t = <<>> THEN <<>>
             ELSE <<[rank |-> ThreatRank(threat[1].level), cmd |-> t[1],
                     urgent |-> t[2]]>>)
            \o PlayerTranslations(nearby, sense, n + 1)

Translations(nearby, sense, starve) ==
    LET threat == predict_starvation(SpiderSelf, starve[1], starve[2], starve[3])
        t == IF threat = <<>> THEN <<>> ELSE TranslateStarvation(threat[1])
    IN PlayerTranslations(nearby, sense, 1)
       \o (IF t = <<>> THEN <<>>
           ELSE <<[rank |-> ThreatRank(threat[1].level), cmd |-> t[1],
                   urgent |-> t[2]]>>)

\* the queue after motor.queue_urgent / motor.queue of the translations from
\* position n on
RECURSIVE Enqueued(_, _, _)
Enqueued(q, ts, n) ==
    IF n > Len(ts) THEN q
    ELSE Enqueued(IF ts[n].urgent THEN <<ts[n].cmd>> \o q ELSE Append(q, ts[n].cmd),
                  ts, n + 1)

\* one run of the section: what it does to MotorInner, under the motor lock
SpiderSenseSection(nearby, sense, starve) ==
    LET ts == Translations(nearby, sense, starve)
        q == Enqueued(command_queue, ts, 1)
    IN /\ Len(q) <= MaxQueue
       /\ command_queue' = q
       /\ nearby_players' = (nearby /= <<>>)
       /\ tick_commands' = ts
       /\ executed' = <<>>
       /\ completed' = <<>>
       /\ urgent_arg' = <<>>
       /\ motor_op' = "spider_sense"
       /\ UNCHANGED <<active_action, is_sprinting, is_sneaking, is_walking,
                      ran_steps>>
       /\ UNCHANGED <<active_predictions, predictions_made, predictions_correct,
                      accuracy, spider_call, spider_result, spider_op>>

\* one run of the section with nothing else going on
SpiderSenseTick(nearby, sense, starve) ==
    /\ SpiderSenseSection(nearby, sense, starve)
    /\ UNCHANGED <<goal_vars, ledger_vars, task_vars, lock_vars>>

\* the tick: the spider-sense section and the executor step
OrchestratorNext ==
    \/ \E nearby \in NearbyLists, sense \in [Players -> PlayerReadings],
          starve \in StarvationReadings : SpiderSenseTick(nearby, sense, starve)
    \/ Handle

(***************************************************************************)
(* The tasks the event handler spawns with tokio::spawn and detaches:      *)
(*   - the reply task of the brain (brain.rs:293-414), one per chat        *)
(*     message it decides to answer: the Gemini call with its retries,     *)
(*     then the reply;                                                     *)
(*   - the judgment task of the visual cortex (bot.rs:200-205).            *)
(* A task runs in parallel with the tick path; its steps are its awaits    *)
(* and its critical sections.  The decision to answer a message (sender,   *)
(* triggers, the 5 s rate limit) and the decision to scan (should_scan,    *)
(* a scan that is not empty) are inputs; memory, personality and the       *)
(* periodic memory.save() are left out.                                    *)
(***************************************************************************)
\* what the HTTP call came back with: the transport failed, or a status and
\* a body
Response(status, body) == [status |-> status, body |-> body]

\* the responses of the API in the model: a failed transport; a 429 or
\* another non-success status, whose body is an error object or no JSON; a
\* success, whose body cannot be read, is no JSON, holds no candidate or holds
\* a candidate with text
Responses ==
    { Response("network_error", "none") }
    \cup { Response(st, b) : st \in {"rate_limited", "http_error"},
                              b \in {"error_object", "not_json"} }
    \cup { Response("success", b) :
              b \in {"unreadable", "not_json", "no_candidates", "candidates"} }

\* brain.rs:314: max_retries
MaxRetries == 3

\* a retry loop that tries once more after the last 429
ReplyAfterRetriesOnceMore(response, attempt) ==
    IF response.status = "network_error" THEN "done"
    ELSE IF response.status = "rate_limited"
    THEN (IF attempt <= MaxRetries THEN "sending" ELSE "done")
    ELSE IF response.status /= "success" THEN "done"
    ELSE IF response.body = "unreadable" THEN "done"
    ELSE IF response.body = "candidates" THEN "replying"
    ELSE "saving"

\* brain.rs:324: 2u64.pow(attempt), the seconds slept before the next request
wait_secs(attempt) == 2 ^ attempt

\* where the reply task goes after a response that always ends in a reply
ReplyAfterAnyResponse(response, attempt) == "replying"

\* where the reply task goes after the response of its attempt-th call
\* (brain.rs:316-404)
ReplyAfter(response, attempt) ==
    IF response.status = "network_error" THEN "done"
    ELSE IF response.status = "rate_limited"
    THEN (IF attempt < MaxRetries THEN "sending" ELSE "done")
    ELSE IF response.status /= "success" THEN "done"
    ELSE IF response.body = "unreadable" THEN "done"
    ELSE IF response.body = "candidates" THEN "replying"
    ELSE "saving"

\* judge_with_gemini: Some(judgment) or None; the status is not looked at
judge_with_gemini(response) ==
    IF response.status = "network_error" THEN <<>>
    ELSE IF response.body = "candidates" THEN <<"judgment">>
    ELSE <<>>

\* a task as tokio::spawn starts it: about to send its request; attempt is
\* the counter of the retry loop, back at 0 once the loop is left.  A task
\* ends at "done", the judgment task that has queued its command at "queued".
Task(kind) == [kind |-> kind, pc |-> "sending", attempt |-> 0]

\* brain.rs:200-201: history.len() > 20 drains the oldest 10
HistoryCap == 20
HistoryDrain == 10

\* brain.rs:198-202: push onto chat_history
push_history(h, entry) ==
    LET pushed == Append(h, entry)
    IN IF Len(pushed) > HistoryCap
       THEN SubSeq(pushed, HistoryDrain + 1, Len(pushed))
       ELSE pushed

\* a call on the game client, with the code that makes it
Emission(call, by) == [call |-> call, by |-> by]

\* the calls the executor makes on the game client for the command it has
\* dequeued (motor.rs:165-255)
ExecutorEmissions(popped) ==
    IF popped = <<>> THEN <<>>
    ELSE IF popped[1].kind = "Chat" THEN <<Emission("chat", "executor")>>
    ELSE IF popped[1].kind = "Jump" THEN <<Emission("jump", "executor")>>
    ELSE IF popped[1].kind \in GotoKinds THEN <<Emission("start_goto", "executor")>>
    ELSE <<>>

\* the Chat command of judgment task n
JudgmentCmd(n) == ChatCmd(<<"judgment", n>>)
IsJudgment(cmd) ==
    cmd.kind = "Chat" /\ "text" \in DOMAIN cmd /\ cmd.text[1] = "judgment"

\* brain handle, Event::Chat: the message goes into the history and, if the
\* bot answers it, the reply task is spawned
ChatEvent(respond) ==
    /\ Len(chat_history) < MaxHistory
    /\ respond => Len(tasks) < MaxTasks
    /\ chat_history' = push_history(chat_history, <<"message">>)
    /\ tasks' = (IF respond THEN Append(tasks, Task("reply")) ELSE tasks)
    /\ emitted' = <<>>
    /\ responded' = <<>>
    /\ UNCHANGED <<motor_lock, dequeued, save_counter, tick_pc, tick_log>>
    /\ UNCHANGED <<goal_vars, motor_vars, ledger_vars, spider_vars, lock_vars>>

\* bot.rs:183-206: the visual-cortex section of a tick that scans and finds
\* something to judge spawns the judgment task
SpawnJudge ==
    /\ Len(tasks) < MaxTasks
    /\ tasks' = Append(tasks, Task("judge"))
    /\ emitted' = <<>>
    /\ responded' = <<>>
    /\ UNCHANGED <<motor_lock, dequeued, chat_history, save_counter, tick_pc,
                   tick_log>>
    /\ UNCHANGED <<goal_vars, motor_vars, ledger_vars, spider_vars, lock_vars>>

\* the request of task n comes back (brain.rs:318-359, bot.rs:201)
Respond(n, response) ==
    /\ n \in 1..Len(tasks)
    /\ tasks[n].pc = "sending"
    /\ LET attempt == tasks[n].attempt + 1
           next == IF tasks[n].kind = "reply"
                   THEN ReplyAfter(response, attempt)
                   ELSE IF judge_with_gemini(response) /= <<>>
                   THEN "locking"
                   ELSE "done"
       IN /\ tasks' = [tasks EXCEPT ![n] =
                          [kind |-> @.kind, pc |-> next,
                           attempt |-> IF next = "sending" THEN attempt ELSE 0]]
          /\ responded' = <<[task |-> n, response |-> response,
                              attempt |-> attempt,
                              wait |-> IF tasks[n].kind = "reply" /\ next = "sending"
                                       THEN wait_secs(attempt) ELSE 0]>>
    /\ emitted' = <<>>
    /\ UNCHANGED <<motor_lock, dequeued, chat_history, save_counter, tick_pc,
                   tick_log>>
    /\ UNCHANGED <<goal_vars, motor_vars, ledger_vars, spider_vars, lock_vars>>

\* brain.rs:366-387: the reply task says its reply on the game client and
\* appends it to the history
ReplyEmit(n) ==
    /\ n \in 1..Len(tasks)
    /\ tasks[n].pc = "replying"
    /\ emitted' = <<Emission("chat", "reply_task")>>
    /\ chat_history' = Append(chat_history, <<"reply", n>>)
    /\ tasks' = [tasks EXCEPT ![n].pc = "saving"]
    /\ responded' = <<>>
    /\ UNCHANGED <<motor_lock, dequeued, save_counter, tick_pc, tick_log>>
    /\ UNCHANGED <<goal_vars, motor_vars, ledger_vars, spider_vars, lock_vars>>

\* brain.rs:406-413: the reply task counts the response
ReplySave(n) ==
    /\ n \in 1..Len(tasks)
    /\ tasks[n].pc = "saving"
    /\ save_counter' = save_counter + 1
    /\ tasks' = [tasks EXCEPT ![n].pc = "done"]
    /\ emitted' = <<>>
    /\ responded' = <<>>
    /\ UNCHANGED <<motor_lock, dequeued, chat_history, tick_pc, tick_log>>
    /\ UNCHANGED <<goal_vars, motor_vars, ledger_vars, spider_vars, lock_vars>>

\* bot.rs:202: the judgment task takes the motor lock
JudgeLock(n) ==
    /\ n \in 1..Len(tasks)
    /\ tasks[n].pc = "locking"
    /\ motor_lock = 0
    /\ motor_lock' = n
    /\ tasks' = [tasks EXCEPT ![n].pc = "queueing"]
    /\ emitted' = <<>>
    /\ responded' = <<>>
    /\ UNCHANGED <<dequeued, chat_history, save_counter, tick_pc, tick_log>>
    /\ UNCHANGED <<goal_vars, motor_vars, ledger_vars, spider_vars, lock_vars>>

\* bot.rs:203-204: motor.queue(Chat(judgment)), and the guard is dropped
JudgeQueue(n) ==
    /\ n \in 1..Len(tasks)
    /\ tasks[n].pc = "queueing"
    /\ PushBack(JudgmentCmd(n), MaxQueue)
    /\ motor_lock' = 0
    /\ tasks' = [tasks EXCEPT ![n].pc = "queued"]
    /\ emitted' = <<>>
    /\ responded' = <<>>
    /\ UNCHANGED <<dequeued, chat_history, save_counter, tick_pc, tick_log>>
    /\ UNCHANGED <<goal_vars, ledger_vars, spider_vars, lock_vars>>

\* bot.rs:277: the motor section of a tick; handle() takes the motor lock
\* (motor.rs:126) and holds it to its end
TickExecutor ==
    /\ motor_lock = 0
    /\ \E draw \in FidgetDraws(command_queue, active_action, nearby_players) :
          ExecutorStep(draw[1], draw[2], draw[3], MaxQueue)
    /\ dequeued' = (IF executed' /= <<>> /\ IsJudgment(executed'[1])
                    THEN Append(dequeued, executed'[1].text[2])
                    ELSE dequeued)
    /\ emitted' = ExecutorEmissions(executed')
    /\ responded' = <<>>
    /\ UNCHANGED <<tasks, motor_lock, chat_history, save_counter, tick_pc,
                   tick_log>>
    /\ UNCHANGED <<goal_vars, ledger_vars, spider_vars, lock_vars>>

\* the judgment tasks in parallel with the executor steps of the tick path
JudgeNext ==
    \/ SpawnJudge
    \/ \E n \in 1..MaxTasks, r \in Responses : Respond(n, r)
    \/ \E n \in 1..MaxTasks : JudgeLock(n)
    \/ \E n \in 1..MaxTasks : JudgeQueue(n)
    \/ TickExecutor

\* the tasks of both kinds from their spawn to their end, with the chat
\* events that spawn the reply tasks
TaskNext ==
    \/ \E respond \in BOOLEAN : ChatEvent(respond)
    \/ SpawnJudge
    \/ \E n \in 1..MaxTasks, r \in Responses : Respond(n, r)
    \/ \E n \in 1..MaxTasks : ReplyEmit(n)
    \/ \E n \in 1..MaxTasks : ReplySave(n)
    \/ \E n \in 1..MaxTasks : JudgeLock(n)
    \/ \E n \in 1..MaxTasks : JudgeQueue(n)

(***************************************************************************)
(* The tick path of the event handler (bot.rs:86-278), section by section  *)
(* in the order of the source.  tick_pc is the section that runs next;     *)
(* tick_log records, for the tick in progress, each step a section takes   *)
(* in one of the three subsystems: "threat" for the evaluation of the      *)
(* spider-sense section, "goal" for a call into GoalPlanner, "motor" for   *)
(* the executor step.  The handler awaits nothing between the sections     *)
(* that could let another section of the same invocation in.  The          *)
(* elapsed-time tests (anti-AFK, idle seconds), the reaction phase, the    *)
(* fidget of natural_look, the scan decision and the boredom of the        *)
(* dreamer are inputs.                                                     *)
(***************************************************************************)
\* ReactionAction values that reach the game client (reaction_delay.rs:174-193)
ReactionActions == {"Nothing", "JumpAndRun", "Sprint"}

\* the calls the plugins make on the game client
PluginEmissions(afk, hop, reaction) ==
    (IF afk THEN <<Emission("jump", "anti_afk")>> ELSE <<>>)
    \o (IF hop THEN <<Emission("jump", "natural_look")>> ELSE <<>>)
    \o (IF reaction = "JumpAndRun"
        THEN <<Emission("jump", "reaction_delay"), Emission("sprint", "reaction_delay")>>
        ELSE IF reaction = "Sprint" THEN <<Emission("sprint", "reaction_delay")>>
        ELSE <<>>)

\* what the section reads in the ticks of the model: nobody or one player
\* nearby; the placeholder reading, a hostile player closing in with tnt
\* (an urgent Log), an unknown player standing close with a bow (a Chat)
TickNearbyLists == { <<>>, <<"ana">> }
TickReadings ==
    { Reading(unknown, 15, TRUE, 20), Reading(tnt, 15, TRUE, -21),
      Reading(bow, 14, FALSE, 20) }

\* the message of a realized dream (dreamer.rs:227)
DreamCmd == ChatCmd(<<"hmm sabe oq">>)

\* bot.rs:88-98: the plugins and the per-tick systems that precede the
\* numbered sections
TickPlugins(afk, hop, reaction) ==
    /\ tick_pc = "idle"
    /\ tick_pc' = "spider_sense"
    /\ tick_log' = <<>>
    /\ emitted' = PluginEmissions(afk, hop, reaction)
    /\ responded' = <<>>
    /\ UNCHANGED <<tasks, motor_lock, dequeued, chat_history, save_counter>>
    /\ UNCHANGED <<goal_vars, motor_vars, ledger_vars, spider_vars, lock_vars>>

\* bot.rs:100-169: section [6], threat prediction
TickSpiderSense(nearby, sense, starve) ==
    /\ tick_pc = "spider_sense"
    /\ motor_lock = 0
    /\ SpiderSenseSection(nearby, sense, starve)
    /\ tick_pc' = "visual_cortex"
    /\ tick_log' = Append(tick_log, "threat")
    /\ emitted' = <<>>
    /\ responded' = <<>>
    /\ UNCHANGED <<tasks, motor_lock, dequeued, chat_history, save_counter>>
    /\ UNCHANGED <<goal_vars, ledger_vars, lock_vars>>

\* bot.rs:171-208: section [7]; a scan with something to judge spawns the
\* judgment task
TickVisualCortex(judge) ==
    /\ tick_pc = "visual_cortex"
    /\ tick_pc' = "dreamer"
    /\ tasks' = (IF judge /\ Len(tasks) < MaxTasks
                 THEN Append(tasks, Task("judge")) ELSE tasks)
    /\ emitted' = <<>>
    /\ responded' = <<>>
    /\ UNCHANGED <<motor_lock, dequeued, chat_history, save_counter, tick_log>>
    /\ UNCHANGED <<goal_vars, motor_vars, ledger_vars, spider_vars, lock_vars>>

\* bot.rs:210-246: section [8]; planner.current_goal() decides whether the
\* dreamer idles, and a bored dreamer adds a goal (dreamer.rs:205-209) and
\* queues its message
TickDreamer(bored, priority) ==
    LET has_active_goal == current_goal(goals, active_goal) /= 0
        dreams == ~has_active_goal /\ bored
                  /\ Len(goals) < Len(SeedGoals) + MaxAdded
    IN /\ tick_pc = "dreamer"
       /\ tick_pc' = "wander"
       /\ tick_log' = Append(tick_log, "goal")
       /\ IF dreams
          THEN /\ motor_lock = 0
               /\ goals' = Append(goals, NewGoal(priority))
               /\ preempted' = 0
               /\ goal_op' = "add_goal"
               /\ picked' = 0
               /\ UNCHANGED <<active_goal, completed_count, failed_count>>
               /\ PushBack(DreamCmd, MaxQueue)
          ELSE UNCHANGED <<goal_vars, motor_vars, lock_vars>>
       /\ emitted' = <<>>
       /\ responded' = <<>>
       /\ UNCHANGED <<tasks, motor_lock, dequeued, chat_history, save_counter>>
       /\ UNCHANGED <<ledger_vars, spider_vars, lock_vars>>

\* bot.rs:248-274: sections [8.5] and [8.6]; the position update touches
\* nothing of the model, and the wander test reaches planner.current_goal()
\* only past idle_secs > 60 && !motor.is_walking
TickWander(idle) ==
    LET asks == idle /\ ~is_walking
        should_wander == /\ asks
                         /\ current_goal(goals, active_goal) = 0
                         /\ Len(command_queue) = 0
    IN /\ tick_pc = "wander"
       /\ motor_lock = 0
       /\ tick_pc' = "motor"
       /\ tick_log' = (IF asks THEN Append(tick_log, "goal") ELSE tick_log)
       /\ IF should_wander
          THEN PushBack(Cmd("WanderRandom"), MaxQueue)
          ELSE UNCHANGED motor_vars
       /\ emitted' = <<>>
       /\ responded' = <<>>
       /\ UNCHANGED <<tasks, motor_lock, dequeued, chat_history, save_counter>>
       /\ UNCHANGED <<goal_vars, ledger_vars, spider_vars, lock_vars>>

\* bot.rs:276-277: section [9], the executor step that ends the tick
TickMotor ==
    /\ tick_pc = "motor"
    /\ motor_lock = 0
    /\ \E draw \in FidgetDraws(command_queue, active_action, nearby_players) :
          ExecutorStep(draw[1], draw[2], draw[3], MaxQueue)
    /\ tick_pc' = "idle"
    /\ tick_log' = Append(tick_log, "motor")
    /\ dequeued' = (IF executed' /= <<>> /\ IsJudgment(executed'[1])
                    THEN Append(dequeued, executed'[1].text[2])
                    ELSE dequeued)
    /\ emitted' = ExecutorEmissions(executed')
    /\ responded' = <<>>
    /\ UNCHANGED <<tasks, motor_lock, chat_history, save_counter>>
    /\ UNCHANGED <<goal_vars, ledger_vars, spider_vars, lock_vars>>

\* one Event::Tick after the other
TickNext ==
    \/ \E afk \in BOOLEAN, hop \in BOOLEAN, reaction \in ReactionActions :
          TickPlugins(afk, hop, reaction)
    \/ \E nearby \in TickNearbyLists, r \in TickReadings,
          starve \in StarvationReadings :
          TickSpiderSense(nearby, [p \in Players |-> r], starve)
    \/ \E judge \in BOOLEAN : TickVisualCortex(judge)
    \/ \E bored \in BOOLEAN, priority \in AddPriorities : TickDreamer(bored, priority)
    \/ \E idle \in BOOLEAN : TickWander(idle)
    \/ TickMotor

\* no task spawned, no event handled yet
TaskInit ==
    /\ tasks = <<>>
    /\ responded = <<>>
    /\ motor_lock = 0
    /\ dequeued = <<>>
    /\ chat_history = <<>>
    /\ save_counter = 0
    /\ emitted = <<>>
    /\ tick_pc = "idle"
    /\ tick_log = <<>>

(***************************************************************************)
(* The mutexes of State and the order in which the event handler and the   *)
(* tasks it spawns lock them.  Every lock is a std::sync::Mutex taken with *)
(* .lock().unwrap(); its guard is dropped at the end of the enclosing      *)
(* block, the guards of one block in the reverse order of their            *)
(* declaration.  The code of a handler or task is written as the sequence  *)
(* of its lock, unlock and await sites, a condition of the code being a    *)
(* choice between running a block and skipping it.                         *)
(***************************************************************************)
Handlers == {"tick", "chat"}

Spawned == {"reply", "judge"}

Procs == Handlers \cup Spawned

Instr(op, arg, n) == [op |-> op, arg |-> arg, n |-> n]

\* let guard = state.<arg>.lock().unwrap()
Lock(l) == Instr("lock", l, 0)

\* the guard goes out of scope
Unlock(l) == Instr("unlock", l, 0)

\* <arg>(..).await of an async fn without a suspension inside: its body has
\* run when the await returns
Ready(f) == Instr("ready", f, 0)

\* .await of a network call or timer: the task is suspended until it completes
Pending(f) == Instr("await", f, 0)

\* a condition: the next n instructions run or are skipped
Skip(n) == Instr("skip", "", n)

\* continue: back to the head of the loop, n instructions up
Back(n) == Instr("back", "", n)

\* return inside a spawned task
Return == Instr("return", "", 0)

\* tokio::spawn(async move { .. })
SpawnTask(t) == Instr("spawn", t, 0)

Maybe(block) == <<Skip(Len(block))>> \o block

Hold(l) == <<Lock(l), Unlock(l)>>

RECURSIVE Nest(_, _)
Nest(ls, block) ==
    IF ls = <<>> THEN block
    ELSE <<Lock(Head(ls))>> \o Nest(Tail(ls), block) \o <<Unlock(Head(ls))>>

\* bot.rs:86-278, the Event::Tick path of handle(), with the handlers it awaits
TickProgram ==
    <<Ready("auto_eat::handle")>>                                      \* :88
    \o Hold("last_action") \o <<Ready("anti_afk::handle")>>            \* :89
    \o Hold("last_ping") \o <<Ready("ping::handle")>>                  \* :90
    \o Hold("personality") \o <<Ready("brain::handle")>>               \* :92
    \o Hold("natural_look") \o <<Ready("natural_look::handle")>>       \* :94
    \o <<Ready("inventory_manager::handle")>>                          \* :96
    \o Hold("reaction") \o <<Ready("reaction_delay::handle")>>         \* :98
    \o Nest(<<"world", "memory", "spider_sense", "motor">>, <<>>)      \* :101-169
    \o Hold("world") \o Hold("visual_cortex")                          \* :173-181
    \o Maybe(<<SpawnTask("judge")>>)                                   \* :183-207
    \o Hold("goals") \o Hold("dreamer")                                \* :212-225
    \o Maybe(Hold("personality")                                       \* :227-244
             \o Nest(<<"memory", "goals", "dreamer">>, Maybe(Hold("motor"))))
    \o Hold("motor")                                                   \* :249-253
    \o Nest(<<"motor", "goals">>, <<>>)                                \* :257-267
    \o Maybe(Hold("motor"))                                            \* :269-273
    \o Hold("motor") \o <<Ready("motor::handle")>>                     \* :277

\* brain.rs:96-104, build_context(): seven guards, all held to the end
build_context ==
    Nest(<<"memory", "personality", "goals", "world", "social", "economy",
           "chat_history">>, <<>>)

\* bot.rs:59-70 and brain.rs:193-293, the Event::Chat path
ChatProgram ==
    Maybe(Hold("natural_look"))                                        \* bot.rs:63-66
    \o Hold("chat_history")                                            \* :197-203
    \o Maybe(Hold("memory")                                            \* :218-223
             \o Hold("personality")                                    \* :226-229
             \o Nest(<<"social", "memory">>, <<>>)                     \* :232-247
             \o Maybe(Hold("last_chat")                                \* :264-270
                      \o Maybe(build_context                           \* :273
                               \o <<SpawnTask("reply")>>)))            \* :293
    \o <<Ready("brain::handle")>>                                      \* bot.rs:69

\* brain.rs:316-347, the retry loop of the reply task
RetryLoop ==
    LET head == <<Pending("send")>> \o Maybe(<<Return>>)               \* :318, :340
    IN  head
        \o Maybe(<<Pending("text")>>                                   \* :322
                 \o Maybe(<<Pending("sleep"), Back(Len(head) + 4)>>)   \* :326-327
                 \o <<Return>>)                                        \* :331
        \o Maybe(<<Pending("text"), Return>>)                          \* :335-337

\* the reply task with the chat history locked before the request is sent
ReplyProgramGuardAcrossSend ==
    <<Lock("chat_history")>> \o RetryLoop
    \o <<Pending("text")>> \o Maybe(<<Return>>)
    \o <<Unlock("chat_history")>>
    \o Nest(<<"save_counter">>, Maybe(Hold("memory")))

\* brain.rs:293-414, the task spawned for a reply
ReplyProgram ==
    RetryLoop
    \o <<Pending("text")>> \o Maybe(<<Return>>)                        \* :353-358
    \o Maybe(Hold("personality") \o Hold("chat_history"))              \* :369-387
    \o Nest(<<"save_counter">>, Maybe(Hold("memory")))                 \* :406-413

\* the judgment task with the motor locked before the request is sent
JudgeProgramGuardAcrossSend ==
    Nest(<<"motor">>, <<Pending("send")>> \o Maybe(<<Pending("json")>>))

\* bot.rs:200-205 with visual_cortex.rs:240-242, the task spawned for a judgment
JudgeProgram ==
    <<Pending("send")>> \o Maybe(<<Pending("json")>>)
    \o Maybe(Hold("motor"))

Program(p) ==
    CASE p = "tick" -> TickProgram
      [] p = "chat" -> ChatProgram
      [] p = "reply" -> ReplyProgram
      [] p = "judge" -> JudgeProgram

Mutexes ==
    UNION { { Program(p)[i].arg :
                i \in { j \in 1..Len(Program(p)) : Program(p)[j].op = "lock" } } :
            p \in Procs }

Running(p) == lock_pc[p] \in 1..Len(Program(p))

Current(p) == Program(p)[lock_pc[p]]

At(p, op) == Running(p) /\ Current(p).op = op

HeldBy(p) == { l \in DOMAIN lock_owner : lock_owner[l] = p }

Advance(p, n) == lock_pc' = [lock_pc EXCEPT ![p] = lock_pc[p] + n]

LockFrame == UNCHANGED <<goal_vars, motor_vars, ledger_vars, spider_vars, task_vars>>

\* the client delivers an event: handle(bot, event, state) starts
Dispatch(h) ==
    /\ h \in Handlers
    /\ lock_pc[h] = 0
    /\ lock_pc' = [lock_pc EXCEPT ![h] = 1]
    /\ UNCHANGED lock_owner
    /\ LockFrame

\* the same when the handlers of successive events run one after the other
DispatchInTurn(h) ==
    /\ \A g \in Handlers : lock_pc[g] = 0
    /\ Dispatch(h)

\* Mutex::lock(): blocks the thread while another guard of the mutex is alive
Acquire(p) ==
    /\ At(p, "lock")
    /\ lock_owner[Current(p).arg] = "none"
    /\ lock_owner' = [lock_owner EXCEPT ![Current(p).arg] = p]
    /\ Advance(p, 1)
    /\ LockFrame

Release(p) ==
    /\ At(p, "unlock")
    /\ lock_owner' = [lock_owner EXCEPT ![Current(p).arg] = "none"]
    /\ Advance(p, 1)
    /\ LockFrame

Poll(p) ==
    /\ At(p, "ready")
    /\ Advance(p, 1)
    /\ UNCHANGED lock_owner
    /\ LockFrame

\* the response, the body or the timer a suspended task waits for arrives
Resume(p) ==
    /\ At(p, "await")
    /\ Advance(p, 1)
    /\ UNCHANGED lock_owner
    /\ LockFrame

Branch(p) ==
    /\ At(p, "skip")
    /\ \E n \in {0, Current(p).n} : Advance(p, 1 + n)
    /\ UNCHANGED lock_owner
    /\ LockFrame

Continue(p) ==
    /\ At(p, "back")
    /\ Advance(p, 0 - Current(p).n)
    /\ UNCHANGED lock_owner
    /\ LockFrame

\* return: the task ends, dropping every guard it still holds
ReturnFrom(p) ==
    /\ At(p, "return")
    /\ lock_pc' = [lock_pc EXCEPT ![p] = Len(Program(p)) + 1]
    /\ lock_owner' = [l \in DOMAIN lock_owner |->
                        IF lock_owner[l] = p THEN "none" ELSE lock_owner[l]]
    /\ LockFrame

\* tokio::spawn: the task starts beside the handler (one task of a kind is
\* followed at a time)
Spawn(p) ==
    /\ At(p, "spawn")
    /\ lock_pc' = [lock_pc EXCEPT
                     ![p] = lock_pc[p] + 1,
                     ![Current(p).arg] = IF @ = 0 THEN 1 ELSE @]
    /\ UNCHANGED lock_owner
    /\ LockFrame

\* the handler returns Ok(()), the task's future completes
Finish(p) ==
    /\ lock_pc[p] = Len(Program(p)) + 1
    /\ lock_pc' = [lock_pc EXCEPT ![p] = 0]
    /\ UNCHANGED lock_owner
    /\ LockFrame

\* what a handler or task does without waiting for anything but a mutex
LockStep(p) ==
    \/ Acquire(p)
    \/ Release(p)
    \/ Poll(p)
    \/ Branch(p)
    \/ Continue(p)
    \/ ReturnFrom(p)
    \/ Spawn(p)
    \/ Finish(p)

LockInit ==
    /\ lock_owner = [l \in Mutexes |-> "none"]
    /\ lock_pc = [p \in Procs |-> 0]

\* handlers of different events and the spawned tasks run side by side
LockNext ==
    \/ \E h \in Handlers : Dispatch(h)
    \/ \E p \in Procs : LockStep(p)
    \/ \E p \in Spawned : Resume(p)

\* one handler at a time, the spawned tasks beside it
StalledNext ==
    \/ \E h \in Handlers : DispatchInTurn(h)
    \/ \E p \in Procs : LockStep(p)
    \/ \E p \in Spawned : Resume(p)

Init == GoalInit /\ MotorInit /\ LedgerInit /\ SpiderInit /\ TaskInit /\ LockInit

SpecGoals == Init /\ [][GoalNext]_vars

SpecLocks == Init /\ [][LockNext]_vars

\* the threads of the runtime keep running whatever is not suspended; no
\* response is ever bound to arrive
SpecStalled ==
    Init /\ [][StalledNext]_vars /\ \A p \in Procs : WF_vars(LockStep(p))

SpecMotor == Init /\ [][MotorNext]_vars

SpecLedger == Init /\ [][LedgerNext]_vars

SpecTrade == Init /\ [][TradeNext]_vars

SpecThreats == Init /\ [][ThreatNext]_vars

SpecPlayerThreat == Init /\ [][PlayerThreatNext]_vars

SpecRanking == Init /\ [][RankingNext]_vars

SpecOrchestrator == Init /\ [][OrchestratorNext]_vars

SpecFidgets == Init /\ [][FidgetNext]_vars

SpecJudge == Init /\ [][JudgeNext]_vars

SpecTasks == Init /\ [][TaskNext]_vars

SpecTick == Init /\ [][TickNext]_vars

SpecSettle == Init /\ [][SettleNext]_vars

\* ticks keep occurring: the executor step is weakly fair
SpecPending == Init /\ [][PendingNext]_vars /\ WF_vars(PendingStep)

\* the caller keeps calling: its rounds are weakly fair
SpecRetry ==
    Init /\ [][RetryNext]_vars /\ WF_vars(RetryPick) /\ WF_vars(RetryFail)

(***************************************************************************)
(* GoalPlanner: properties                                                 *)
(***************************************************************************)
ActiveGoals == {i \in 1..Len(goals) : goals[i].status = "Active"}

\* C1: after any sequence of add_goal, emergency, pick_next, complete_current
\* and fail_current from the seeded backlog, at most one goal is Active.
C1_AtMostOneActive == Cardinality(ActiveGoals) <= 1

\* C1 witness: emergency() has just preempted an Active goal: the old one is
\* Paused and the new one is the only Active goal.
C1_Witness ==
    /\ goal_op = "emergency"
    /\ preempted /= 0
    /\ goals[preempted].status = "Paused"
    /\ ActiveGoals = {Len(goals)}

\* C7: the goal pick_next() returns is Active and, among the goals left Pending
\* or Paused, none has a lower priority value, and none of equal priority was
\* inserted earlier.
C7_PickIsFirstMinimum ==
    (goal_op = "pick_next" /\ picked /= 0) =>
        /\ goals[picked].status = "Active"
        /\ \A j \in 1..Len(goals) :
              (j /= picked /\ goals[j].status \in {"Pending", "Paused"}) =>
                  \/ goals[picked].priority < goals[j].priority
                  \/ (goals[picked].priority = goals[j].priority /\ picked < j)

\* C7 witness: with the first Critical goal (position 1) Completed, pick_next()
\* returns the second Critical goal (position 3) although a High goal inserted
\* before it (position 2) is Pending.
C7_Witness ==
    /\ goal_op = "pick_next"
    /\ picked = 3
    /\ goals[1].status = "Completed"
    /\ goals[2].status = "Pending"

\* the state right after emergency() preempted an Active goal of priority Low
AfterPreemptOfLow ==
    /\ goal_op = "emergency"
    /\ preempted /= 0
    /\ goals[preempted].priority = Low
    /\ goals[preempted].status = "Paused"

\* the Critical goals inserted before position n that pick_next may select
EarlierCritical(n) ==
    {i \in 1..(n - 1) : /\ goals[i].priority = Critical
                        /\ goals[i].status \in {"Pending", "Paused"}}

\* C8 as claimed: after emergency() preempted a Low-priority Active goal, the
\* following pick_next() does not select the emergency goal.
C8_NoReselect ==
    [][(AfterPreemptOfLow /\ goal_op' = "pick_next") => picked' /= active_goal]_vars

\* C8 as amended: after emergency() preempted a Low-priority Active goal, the
\* following pick_next() pauses the emergency goal and selects it again (its
\* attempts go up by one), unless a Critical goal inserted before it is Pending
\* or Paused: then pick_next() selects the first of those.
C8_Reselects ==
    [][(AfterPreemptOfLow /\ goal_op' = "pick_next") =>
          IF EarlierCritical(active_goal) = {}
          THEN /\ picked' = active_goal
               /\ active_goal' = active_goal
               /\ goals'[active_goal].status = "Active"
               /\ goals'[active_goal].attempts = goals[active_goal].attempts + 1
          ELSE /\ picked' \in EarlierCritical(active_goal)
               /\ \A j \in EarlierCritical(active_goal) : picked' <= j
               /\ goals'[active_goal].status = "Paused"]_vars

\* C8 witness: pick_next() directly after an emergency() that preempted a Low
\* goal has returned the emergency goal itself.
C8_Witness ==
    /\ goal_op = "pick_next"
    /\ preempted /= 0
    /\ goals[preempted].priority = Low
    /\ picked = Len(goals)
    /\ goals[picked].max_attempts = EmergencyMaxAttempts
    /\ goals[picked].attempts = 1

\* C9: emergency() appends one goal, Critical and Active, makes it the active
\* reference, changes the previously Active goal to Paused and changes no other
\* goal.
C9_EmergencyEffect ==
    [][goal_op' = "emergency" =>
          /\ Len(goals') = Len(goals) + 1
          /\ goals'[Len(goals')].priority = Critical
          /\ goals'[Len(goals')].status = "Active"
          /\ active_goal' = Len(goals')
          /\ \A i \in 1..Len(goals) :
                goals'[i] = IF goals[i].status = "Active"
                            THEN [goals[i] EXCEPT !.status = "Paused"]
                            ELSE goals[i]]_vars

\* C9 witness: emergency() has run while another goal was Active, with goals of
\* other statuses in the backlog.
C9_Witness ==
    /\ goal_op = "emergency"
    /\ active_goal = Len(goals)
    /\ preempted /= 0
    /\ goals[preempted].status = "Paused"
    /\ \E i \in 1..Len(goals) : goals[i].status = "Completed"
    /\ \E i \in 1..Len(goals) : goals[i].status = "Pending"

\* C10: fail_current() leaves the active reference empty; the active goal
\* becomes Failed and failed_count goes up by one exactly when its attempts >=
\* max_attempts, and Paused otherwise; with no active goal nothing else changes.
C10_FailEffect ==
    [][goal_op' = "fail_current" =>
          /\ active_goal' = 0
          /\ IF active_goal = 0
             THEN goals' = goals /\ failed_count' = failed_count
             ELSE LET g == goals[active_goal]
                      exhausted == g.attempts >= g.max_attempts
                  IN /\ goals' = [goals EXCEPT ![active_goal].status =
                                     IF exhausted THEN "Failed" ELSE "Paused"]
                     /\ failed_count' = failed_count + (IF exhausted THEN 1 ELSE 0)]_vars

\* C10 witness: fail_current() has marked a goal Failed whose attempts had just
\* reached max_attempts, while another goal it paused earlier is still Paused.
C10_Witness ==
    /\ goal_op = "fail_current"
    /\ active_goal = 0
    /\ failed_count = 1
    /\ \E i \in 1..Len(goals) :
          goals[i].status = "Failed" /\ goals[i].attempts = goals[i].max_attempts
    /\ \E i \in 1..Len(goals) : goals[i].status = "Paused"

\* C11: a goal that is Failed stays Failed through every GoalPlanner operation,
\* is never the goal pick_next() returns and is never the goal current_goal()
\* returns, before or after the operation.
C11_FailedIsTerminal ==
    [][\A i \in 1..Len(goals) :
          goals[i].status = "Failed" =>
              /\ goals'[i].status = "Failed"
              /\ picked' /= i
              /\ current_goal(goals, active_goal) /= i
              /\ current_goal(goals', active_goal') /= i]_vars

\* C11 witness: with a goal Failed (its attempts used up), pick_next() has
\* returned another goal of the same priority that was inserted after it.
C11_Witness ==
    /\ goal_op = "pick_next"
    /\ picked /= 0
    /\ \E i \in 1..Len(goals) :
          /\ goals[i].status = "Failed"
          /\ goals[i].priority = goals[picked].priority
          /\ i < picked

\* the goals that are Pending, Paused or Active
LiveGoals ==
    {i \in 1..Len(goals) : goals[i].status \in {"Pending", "Paused", "Active"}}

\* C12: pick_next() returns a goal whenever some goal is Pending, Paused or
\* Active; when none is, it returns none, changes no goal and leaves the active
\* reference empty.
C12_PickUnlessExhausted ==
    [][goal_op' = "pick_next" =>
          IF LiveGoals /= {}
          THEN picked' \in LiveGoals
          ELSE /\ picked' = 0
               /\ goals' = goals
               /\ active_goal = 0
               /\ active_goal' = 0]_vars

\* C12 witness: pick_next() has returned none, with every goal of the backlog
\* Completed or Failed.
C12_Witness ==
    /\ goal_op = "pick_next"
    /\ picked = 0
    /\ LiveGoals = {}
    /\ \E i \in 1..Len(goals) : goals[i].status = "Completed"

(***************************************************************************)
(* Motor: properties                                                       *)
(***************************************************************************)
\* the commands inject_fidgets queues
FidgetCommands ==
    {Cmd("RandomLook"), Timed("SneakPulse", FidgetSneakTicks), Cmd("Jump")}

\* s is q followed by fidget commands only
ExtendedByFidgets(q, s) ==
    /\ Len(s) >= Len(q)
    /\ \A i \in 1..Len(s) : IF i <= Len(q) THEN s[i] = q[i]
                                           ELSE s[i] \in FidgetCommands

\* an executor step that starts with a timed action installed
StepWithAction == motor_op' = "step" /\ active_action /= <<>>

\* an executor step that starts with the active slot empty
StepWithoutAction == motor_op' = "step" /\ active_action = <<>>

\* C3: an executor step that starts with a timed action whose counter stays
\* above zero after the decrement removes no command from the pending queue
\* and executes nothing: no command side effect, no clean-up, no flag change.
C3_NoDequeueWhileRunning ==
    [][(StepWithAction /\ active_action[1].ticks_remaining > 1) =>
          /\ command_queue' = command_queue
          /\ executed' = <<>>
          /\ completed' = <<>>
          /\ is_sprinting' = is_sprinting
          /\ is_sneaking' = is_sneaking
          /\ is_walking' = is_walking]_vars

\* C3 witness: a command was queued urgently while a timed action was running;
\* the next step has counted the action down and left the command at the front.
C3_Witness ==
    /\ motor_op = "step"
    /\ active_action /= <<>>
    /\ ran_steps >= 1
    /\ urgent_arg /= <<>>
    /\ command_queue /= <<>>
    /\ Head(command_queue) = urgent_arg[1]
    /\ executed = <<>>

\* C4: a step that starts with the slot empty executes exactly the front
\* command when the queue is non-empty (and at most one command, a fidget it
\* has just injected, when it is empty); the rest of the queue keeps its order
\* and only fidgets are added behind it; queue() adds at the back and
\* queue_urgent() at the front, so that the urgent command is the one the next
\* step executes.
C4_OnePerStepInOrder ==
    [][/\ StepWithoutAction =>
            IF command_queue /= <<>>
            THEN /\ executed' = <<Head(command_queue)>>
                 /\ ExtendedByFidgets(Tail(command_queue), command_queue')
            ELSE /\ Len(executed') <= 1
                 /\ ExtendedByFidgets(<<>>, executed' \o command_queue')
       /\ motor_op' = "queue" =>
            /\ Len(command_queue') = Len(command_queue) + 1
            /\ SubSeq(command_queue', 1, Len(command_queue)) = command_queue
       /\ motor_op' = "queue_urgent" =>
            /\ Len(urgent_arg') = 1
            /\ command_queue' = urgent_arg' \o command_queue
       /\ (motor_op = "queue_urgent" /\ StepWithoutAction) =>
            /\ executed' = urgent_arg
            /\ ExtendedByFidgets(Tail(command_queue), command_queue')]_vars

\* C4 witness: with the slot empty, the step after a queue_urgent() has executed
\* the urgent command and left an earlier command pending.
C4_Witness ==
    /\ motor_op = "step"
    /\ urgent_arg /= <<>>
    /\ executed = urgent_arg
    /\ completed = <<>>
    /\ command_queue /= <<>>
    /\ command_queue[1] \in MotorInputs

\* the duration the action in the active slot was installed with
InstalledTicks == active_action[1].command.duration_ticks

\* C5: a step taken while fewer than N-1 steps have passed since an N-tick
\* action (N >= 1) was installed leaves that action installed and dequeues
\* nothing.
C5_StaysInstalled ==
    [][(StepWithAction /\ InstalledTicks >= 1 /\ ran_steps + 1 < InstalledTicks) =>
          /\ active_action' /= <<>>
          /\ active_action'[1].command = active_action[1].command
          /\ ran_steps' = ran_steps + 1
          /\ command_queue' = command_queue
          /\ executed' = <<>>
          /\ completed' = <<>>]_vars

\* C5 witness: the 40-tick sprint is still installed after 39 steps, with a
\* command pending.
C5_Witness ==
    /\ motor_op = "step"
    /\ active_action /= <<>>
    /\ active_action[1].command = Timed("StartSprint", FleeTicks)
    /\ ran_steps = FleeTicks - 1
    /\ command_queue /= <<>>

\* an executor step in which the active action's counter reaches zero
CompletionStep == StepWithAction /\ active_action[1].ticks_remaining <= 1

\* C6 as claimed: in the step in which the counter reaches zero the clean-up
\* runs, the slot is cleared and no pending command is dequeued.
C6_NoDequeueOnCompletion ==
    [][CompletionStep =>
          /\ completed' = <<active_action[1].command>>
          /\ active_action' = <<>>
          /\ executed' = <<>>
          /\ command_queue' = command_queue]_vars

\* C6 as amended: the counter reaches zero in the N-th step after an N-tick
\* action was installed (the first for N = 0); in that step the clean-up
\* runs (the sprinting / sneaking flag is cleared), the action leaves the slot,
\* and the front pending command, if any, is dequeued and executed in the same
\* step; the slot is empty afterwards unless that command installs an action.
C6_CompletionThenDequeue ==
    [][CompletionStep =>
          LET old == active_action[1].command
          IN /\ completed' = <<old>>
             /\ ran_steps + 1 = (IF InstalledTicks = 0 THEN 1 ELSE InstalledTicks)
             /\ ran_steps' = 0
             /\ IF command_queue = <<>>
                THEN /\ executed' = <<>>
                     /\ command_queue' = <<>>
                     /\ active_action' = <<>>
                ELSE /\ executed' = <<Head(command_queue)>>
                     /\ command_queue' = Tail(command_queue)
                     /\ (active_action' = <<>>) =
                           (Head(command_queue).kind \notin
                               TimedKinds \cup {"FleeDirection"})
             /\ is_sprinting' =
                   (IF executed' /= <<>> /\
                       executed'[1].kind \in {"StartSprint", "FleeDirection"}
                    THEN TRUE
                    ELSE IF old.kind = "StartSprint" THEN FALSE ELSE is_sprinting)
             /\ is_sneaking' =
                   (IF executed' /= <<>> /\ executed'[1].kind = "SneakPulse"
                    THEN TRUE
                    ELSE IF old.kind = "SneakPulse" THEN FALSE ELSE is_sneaking)]_vars

\* C6 witness: the step that finished the 40-tick sprint has cleared the
\* sprinting flag and executed a pending Chat in the same step.
C6_Witness ==
    /\ motor_op = "step"
    /\ completed = <<Timed("StartSprint", FleeTicks)>>
    /\ executed = <<Cmd("Chat")>>
    /\ active_action = <<>>
    /\ ~is_sprinting

\* the pending queue of the step just taken as inject_fidgets left it, before
\* the pop
AfterInjection ==
    IF executed' /= <<>> THEN executed' \o command_queue' ELSE command_queue'

\* C21: the fidget injection of a step adds commands only when the step starts
\* with the active slot empty and at most 5 commands pending; what it adds are
\* fidget commands behind the commands already pending; and the active slot
\* changes in a step only by the countdown, the clean-up and the installation
\* of the command the step dequeued.
C21_FidgetsOnlyWhenIdle ==
    [][motor_op' = "step" =>
          /\ ExtendedByFidgets(command_queue, AfterInjection)
          /\ Len(AfterInjection) > Len(command_queue) =>
                /\ active_action = <<>>
                /\ Len(command_queue) <= FidgetQueueCap
          /\ active_action' =
                IF active_action /= <<>> /\ active_action[1].ticks_remaining > 1
                THEN <<[active_action[1] EXCEPT !.ticks_remaining = @ - 1]>>
                ELSE IF executed' /= <<>> THEN Installs(executed'[1]) ELSE <<>>]_vars

\* C21 witness: a step that started with exactly 5 commands pending and the
\* slot empty has injected all three fidgets behind them and popped the front
\* command.
C21_Witness ==
    /\ motor_op = "step"
    /\ executed /= <<>>
    /\ executed[1] \notin FidgetCommands
    /\ Len(command_queue) = FidgetQueueCap + 2
    /\ SubSeq(command_queue, FidgetQueueCap, FidgetQueueCap + 2) =
          <<Cmd("RandomLook"), Timed("SneakPulse", FidgetSneakTicks), Cmd("Jump")>>
    /\ \A n \in 1..(FidgetQueueCap - 1) : command_queue[n] \notin FidgetCommands

\* how many times cmd occurs in the sequence q
Occurrences(q, cmd) == Cardinality({n \in 1..Len(q) : q[n] = cmd})

\* C22: queue() and queue_urgent() add their command to the pending queue,
\* and every command pending before an operation is pending after it or is
\* the command the executor has dequeued for execution in that operation: no
\* operation of MotorInner discards a pending command.
C22_PendingNeverDiscarded ==
    [][/\ motor_op' \in {"queue", "queue_urgent"} =>
            Len(command_queue') = Len(command_queue) + 1
       /\ \A n \in 1..Len(command_queue) :
            Occurrences(command_queue, command_queue[n]) <=
               Occurrences(command_queue' \o executed', command_queue[n])]_vars

\* what the code does keep: the same for every operation but clear_queue(),
\* which empties the queue and the active slot
PendingKeptUnlessCleared ==
    [][motor_op' /= "clear_queue" =>
          /\ motor_op' \in {"queue", "queue_urgent"} =>
                Len(command_queue') = Len(command_queue) + 1
          /\ \A n \in 1..Len(command_queue) :
                Occurrences(command_queue, command_queue[n]) <=
                   Occurrences(command_queue' \o executed', command_queue[n])]_vars

(***************************************************************************)
(* Economy: properties                                                     *)
(***************************************************************************)
\* C2: in every reachable state each counterparty's stored credit_score equals
\* clamp(5*paid - 3*unpaid - 10*(unpaid debts older than 24 h), -100, 100)
\* computed over its owed-to-us debts at the current time.
C2_ScoreIsCurrent ==
    \A p \in Players :
        ledgers[p] /= <<>> =>
            ledgers[p][1].credit_score = credit_score_at(ledgers[p][1], now)

\* the value table of the spec for an item
ItemValue(item) == IF item \in KnownItems THEN item_values[item] ELSE 1

\* the outcome the ordered decision table gives for a request, with the
\* mathematical product value * quantity
TableKind(r) ==
    IF ledgers[r.player] = <<>> THEN "Cautious"
    ELSE LET ledger == ledgers[r.player][1]
             unpaid_count == Cardinality({n \in 1..Len(ledger.debts_owed_to_us) :
                                 ~ledger.debts_owed_to_us[n].paid})
             v == ItemValue(r.item)
             \* v * quantity > 20 and v * quantity = 0, without the product
             rich == v > 0 /\ r.quantity > 20 \div v
             free == v = 0 \/ r.quantity = 0
         IN IF ledger.credit_score < -20 THEN "Refuse"
            ELSE IF unpaid_count > 2 THEN "Negotiate"
            ELSE IF rich THEN "Negotiate"
            ELSE IF free THEN "Accept"
            ELSE IF ledger.credit_score > 30 THEN "Accept"
            ELSE "Negotiate"

\* C13: evaluate_request returns the first matching outcome of the ordered
\* table (unknown counterparty, credit_score < -20, more than 2 unpaid debts,
\* value * quantity > 20, value 0, credit_score > 30), unknown items valued 1,
\* and changes no ledger.
C13_DecisionTable ==
    [][ledger_op' = "evaluate_request" =>
          /\ ledgers' = ledgers
          /\ decision'[1].kind = TableKind(request'[1])]_vars

\* the table is followed by every request whose product fits 32 bits
DecisionTableWithoutOverflow ==
    [][(ledger_op' = "evaluate_request" /\
        ~u32_mul(ItemValue(request'[1].item), request'[1].quantity).overflow) =>
          /\ ledgers' = ledgers
          /\ decision'[1].kind = TableKind(request'[1])]_vars

\* the ledger of the counterparty of the last request
RequestLedger == ledgers[request[1].player][1]

\* C14: once a counterparty's credit_score is below -20 it stays below -20
\* while gifts go unpaid, and every evaluate_request for that counterparty,
\* whatever the item and quantity, returns Refuse citing the sum of the
\* quantities of its unpaid owed-to-us debts.
C14_RefuseBelowMinus20 ==
    [][\A p \in Players :
          (ledgers[p] /= <<>> /\ ledgers[p][1].credit_score < -20) =>
              /\ ledgers'[p] /= <<>>
              /\ ledgers'[p][1].credit_score < -20
              /\ (ledger_op' = "evaluate_request" /\ request'[1].player = p) =>
                    decision'[1] =
                        Decision("Refuse",
                                 SumQuantity(ledgers[p][1].debts_owed_to_us, FALSE))]_vars

\* C14 witness: after three gifts of one diamond, the last one more than 24 h
\* after the first two, a request for one piece of worthless coal has been
\* refused, citing 3.
C14_Witness ==
    /\ ledger_op = "evaluate_request"
    /\ request[1].item = "coal"
    /\ request[1].quantity = 1
    /\ ledgers[request[1].player] /= <<>>
    /\ Len(RequestLedger.debts_owed_to_us) = 3
    /\ RequestLedger.credit_score = -29
    /\ decision = <<Decision("Refuse", 3)>>

\* the counterparty's whole ledger activity is one record_gift of quantity 1
SingleUnitGift(l) ==
    /\ Len(l.debts_owed_to_us) = 1
    /\ l.debts_owed_to_us[1].quantity = 1
    /\ l.debts_we_owe = <<>>
    /\ \A i \in TradedItems : l.total_received_from_them[i] = 0

\* C15: after a single record_gift of quantity 1 and no other activity of that
\* counterparty, evaluate_request for a different item returns Negotiate or
\* Accept, never Refuse, whatever the item, the quantity and the time passed.
C15_NoRefuseAfterOneGift ==
    (/\ ledger_op = "evaluate_request"
     /\ ledgers[request[1].player] /= <<>>
     /\ SingleUnitGift(RequestLedger)
     /\ request[1].item /= RequestLedger.debts_owed_to_us[1].item) =>
        decision[1].kind \in {"Negotiate", "Accept"}

\* C15 witness: more than 48 h after the single gift of one diamond, a request
\* for 3 emeralds (value 24) has been answered Negotiate.
C15_Witness ==
    /\ ledger_op = "evaluate_request"
    /\ ledgers[request[1].player] /= <<>>
    /\ SingleUnitGift(RequestLedger)
    /\ RequestLedger.debts_owed_to_us[1].item = "diamond"
    /\ now - RequestLedger.debts_owed_to_us[1].created_at > 2 * OldDebtHours
    /\ request[1].item = "emerald"
    /\ request[1].quantity = 3
    /\ decision[1].kind = "Negotiate"

(***************************************************************************)
(* SpiderSense: properties                                                 *)
(***************************************************************************)
Evaluators ==
    {"predict_player_threat", "predict_mining_danger", "predict_starvation",
     "predict_creeper_explosion"}

\* what the evaluator named in a call returns for the call's arguments when
\* run on the predictor self
Evaluate(self, call) ==
    LET a == call.args
    IN CASE call.fn = "predict_player_threat" ->
                predict_player_threat(self, a[1], a[2], a[3], a[4], a[5])
         [] call.fn = "predict_mining_danger" ->
                predict_mining_danger(self, a[1], a[2])
         [] call.fn = "predict_starvation" ->
                predict_starvation(self, a[1], a[2], a[3])
         [] call.fn = "predict_creeper_explosion" ->
                predict_creeper_explosion(self, a[1], a[2])

\* C16: a call of an evaluator changes nothing in the predictor, and what it
\* returns is what the same call returns on a freshly constructed predictor:
\* the result depends on the arguments only, not on the stored predictions,
\* the counters or the calls made before.
C16_EvaluatorsArePure ==
    [][spider_op' \in Evaluators =>
          /\ active_predictions' = active_predictions
          /\ predictions_made' = predictions_made
          /\ predictions_correct' = predictions_correct
          /\ accuracy' = accuracy
          /\ spider_result' = Evaluate(DefaultSpider, spider_call'[1])]_vars

\* C16 witness: predict_starvation has returned a record although starvation
\* predictions are stored and one was counted correct.
C16_Witness ==
    /\ spider_op = "predict_starvation"
    /\ spider_result /= <<>>
    /\ Len(active_predictions) >= 2
    /\ active_predictions[1].threat_type = "StarvationDeath"
    /\ predictions_correct = 1

\* C17: with food_level <= 6 predict_starvation returns a record recommending
\* EatNow, Critical when hp < 4 and there is no food, High when hp < 10 and
\* there is no food, Medium in every other case; above 6 it returns none.
C17_StarvationTable ==
    spider_op = "predict_starvation" =>
        LET food_level == spider_call[1].args[1]
            hp == spider_call[1].args[2]
            has_food == spider_call[1].args[3]
        IN IF food_level <= 6
           THEN /\ spider_result /= <<>>
                /\ spider_result[1].recommended_action = Action("EatNow")
                /\ spider_result[1].level =
                      (IF hp < 4 /\ ~has_food THEN "Critical"
                       ELSE IF hp < 10 /\ ~has_food THEN "High"
                       ELSE "Medium")
           ELSE spider_result = <<>>

\* the table predict_starvation follows: with food_level <= 6, no food and
\* hp >= 10 it returns none
StarvationTableOfTheCode ==
    spider_op = "predict_starvation" =>
        LET food_level == spider_call[1].args[1]
            hp == spider_call[1].args[2]
            has_food == spider_call[1].args[3]
        IN IF food_level <= 6 /\ (has_food \/ hp < 10)
           THEN /\ spider_result /= <<>>
                /\ spider_result[1].recommended_action = Action("EatNow")
                /\ spider_result[1].level =
                      (IF hp < 4 /\ ~has_food THEN "Critical"
                       ELSE IF hp < 10 /\ ~has_food THEN "High"
                       ELSE "Medium")
           ELSE spider_result = <<>>

\* the fixed sets of hazardous and of weapon-class items
Names(list) == {list[n] : n \in 1..Len(list)}

\* the outcome of the precedence table of predict_player_threat for given
\* hazardous / weapon verdicts on the held item: <<level, action>> or <<>>
PlayerThreatTable(hazardous, weapon, distance, approaching, trust) ==
    IF trust < -20 /\ hazardous /\ approaching /\ distance < 30
    THEN <<"Critical", "AttackFirst">>
    ELSE IF trust < 10 /\ weapon /\ approaching /\ distance < 20
    THEN <<"High", IF distance < 8 THEN "AttackFirst" ELSE "Sprint">>
    ELSE IF trust = 20 /\ weapon /\ distance < 15
    THEN <<"Medium", "WarnChat">>
    ELSE <<>>

\* the level and the action of a result
Outcome(result) ==
    IF result = <<>> THEN <<>>
    ELSE <<result[1].level, result[1].recommended_action[1]>>

\* C18: predict_player_threat returns, in this precedence, Critical with
\* AttackFirst exactly when trust < -20, the held item is one of the hazardous
\* items, the player approaches and distance < 30; else High when trust < 10,
\* the item is one of the weapons, approaching and distance < 20 (AttackFirst
\* below 8, Sprint otherwise); else Medium with a warning for a weapon at trust
\* 20 within 15; else none.
C18_PlayerThreatTable ==
    spider_op = "predict_player_threat" =>
        LET a == spider_call[1].args
        IN Outcome(spider_result) =
              PlayerThreatTable(a[2] \in Names(dangerous_items),
                                a[2] \in Names(weapons), a[3], a[4], a[5])

\* the same table with the verdicts the code computes: an item counts as
\* hazardous / as a weapon when its name contains one of the listed names
PlayerThreatTableByContainment ==
    spider_op = "predict_player_threat" =>
        LET a == spider_call[1].args
        IN Outcome(spider_result) =
              PlayerThreatTable(any_contained(dangerous_items, a[2]),
                                any_contained(weapons, a[2]), a[3], a[4], a[5])

\* C20: most_urgent() returns none only when no prediction is stored;
\* otherwise it returns a stored prediction of the lowest rank present
\* (Critical = 0 ... None = 4), the earliest recorded among those of that rank.
C20_MostUrgentIsFirstMinimum ==
    spider_op = "most_urgent" =>
        IF active_predictions = <<>>
        THEN spider_result = 0
        ELSE /\ spider_result \in 1..Len(active_predictions)
             /\ \A j \in 1..Len(active_predictions) :
                   LET mine == ThreatRank(active_predictions[spider_result].level)
                       other == ThreatRank(active_predictions[j].level)
                   IN mine < other \/ (mine = other /\ spider_result <= j)

\* C20 witness: after the list was cut back to its newest predictions,
\* most_urgent() has returned the first of two High predictions, which stands
\* behind a Low one and before a later High one.
C20_Witness ==
    /\ spider_op = "most_urgent"
    /\ predictions_made > PredictionCap
    /\ spider_result = 2
    /\ active_predictions[1].level = "Low"
    /\ active_predictions[2].level = "High"
    /\ \E j \in 3..Len(active_predictions) : active_predictions[j].level = "High"

Accounted(ts, q, dq, n) ==
    Occurrences(q, JudgmentCmd(n)) + Occurrences(dq, n) =
        (IF n <= Len(ts) /\ ts[n].pc = "queued" THEN 1 ELSE 0)

\* C23: with the judgment tasks completing at any point between and around
\* the executor steps of the tick path, the command of each task that has
\* called queue() is either pending exactly once or has been dequeued for
\* execution exactly once, and the command of a task that has not is
\* nowhere; and the executor pops a command only while no task is inside its
\* critical section on the queue.
C23_EachCommandOnce ==
    [][/\ \A n \in 1..MaxTasks : Accounted(tasks', command_queue', dequeued', n)
       /\ dequeued' /= dequeued => motor_lock = 0 /\ motor_lock' = 0]_vars

\* C23 witness: the second task spawned has completed first and its command
\* has been executed, while the command of the first task, queued behind it,
\* is still pending.
C23_Witness ==
    /\ Len(tasks) >= 2
    /\ tasks[1].pc = "queued"
    /\ tasks[2].pc = "queued"
    /\ dequeued = <<2>>
    /\ Occurrences(command_queue, JudgmentCmd(1)) = 1

\* C24: every call a step makes on the game client (chat, jump, sprint,
\* start_goto) is made by the dequeue step of the executor, one call at most
\* per step; a task reaches the game only through the command queue.
C24_OnlyTheExecutorEmits ==
    /\ Len(emitted) <= 1
    /\ \A i \in 1..Len(emitted) : emitted[i].by = "executor"

\* the last step was the return of a request that failed: the transport
\* failed or the status is not a success
FailedResponse ==
    /\ responded' /= <<>>
    /\ responded'[1].response.status /= "success"

TickEnded == tick_pc = "idle" /\ tick_log /= <<>>

\* C25: within every tick the goal-planner step, the threat evaluation and
\* the executor step run exactly once each, in that order.
C25_GoalThreatMotorOnce ==
    TickEnded => tick_log = <<"goal", "threat", "motor">>

\* the order of the source: the threat evaluation first, then one call into
\* the planner from the dreamer section and a second one from the wander
\* test when it gets that far, then the executor step
TickOrderOfTheCode ==
    TickEnded => tick_log \in { <<"threat", "goal", "motor">>,
                                <<"threat", "goal", "goal", "motor">> }

(***************************************************************************)
(* record_received and the debts the bot owes: properties                  *)
(***************************************************************************)
\* the call marked the debt at position n paid
NewlyPaid(before, after, n) == ~before[n].paid /\ after[n].paid

\* what is left of the received quantity q when the debt at position n is
\* looked at: q less the debts marked paid before it
RECURSIVE Left(_, _, _, _)
Left(before, after, q, n) ==
    IF n = 1 THEN q
    ELSE Left(before, after, q, n - 1)
         - (IF NewlyPaid(before, after, n - 1) THEN before[n - 1].quantity ELSE 0)

\* C27: record_received(c, item, q) marks the unpaid we-owe debts of that
\* item paid in list order, each one exactly when what is left of q covers
\* its full quantity; the marked debts total at most q, no debt changes in
\* anything but its paid flag, and the debts of other items, the debts owed
\* to the bot and the other ledgers stay as they were.
C27_MarksCoveredDebtsInOrder ==
    [][received' /= <<>> =>
        LET r == received'[1]
            l0 == get_ledger(r.player)
            l1 == ledgers'[r.player][1]
            before == l0.debts_we_owe
            after == l1.debts_we_owe
        IN /\ Len(after) = Len(before)
           /\ \A n \in 1..Len(before) :
                 /\ [after[n] EXCEPT !.paid = before[n].paid] = before[n]
                 /\ before[n].paid => after[n].paid
                 /\ NewlyPaid(before, after, n)
                      <=> /\ ~before[n].paid
                          /\ before[n].item = r.item
                          /\ Left(before, after, r.quantity, n) >= before[n].quantity
           /\ Left(before, after, r.quantity, Len(before) + 1) >= 0
           /\ l1.debts_owed_to_us = l0.debts_owed_to_us
           /\ \A p \in Players \ {r.player} : ledgers'[p] = ledgers[p]
    ]_vars

\* three diamonds received against diamond debts of 2, 2 and 1: the first
\* and the third are paid, the second is skipped
C27_Witness ==
    /\ received = <<[player |-> Debtor, item |-> "diamond", quantity |-> 3]>>
    /\ ledgers[Debtor] /= <<>>
    /\ LET l == ledgers[Debtor][1]
       IN /\ l.total_received_from_them["diamond"] = 3
          /\ Len(l.debts_we_owe) = 3
          /\ \A n \in 1..3 : l.debts_we_owe[n].item = "diamond"
          /\ <<l.debts_we_owe[1].quantity, l.debts_we_owe[2].quantity,
               l.debts_we_owe[3].quantity>> = <<2, 2, 1>>
          /\ <<l.debts_we_owe[1].paid, l.debts_we_owe[2].paid,
               l.debts_we_owe[3].paid>> = <<TRUE, FALSE, TRUE>>

\* C28: record_received for an item with no unpaid we-owe debt of that item,
\* from a counterparty with or without a ledger, leaves the counterparty
\* with a ledger whose two debt lists are what they were and whose received
\* total of the item has grown by the quantity; nothing else changes.
C28_UnmatchedReceiptOnlyCounts ==
    [][(/\ received' /= <<>>
        /\ LET r == received'[1]
               before == get_ledger(r.player).debts_we_owe
           IN \A n \in 1..Len(before) :
                 before[n].paid \/ before[n].item /= r.item)
       =>
        LET r == received'[1]
            l0 == get_ledger(r.player)
        IN /\ ledgers'[r.player] /= <<>>
           /\ LET l1 == ledgers'[r.player][1]
              IN /\ l1.debts_we_owe = l0.debts_we_owe
                 /\ l1.debts_owed_to_us = l0.debts_owed_to_us
                 /\ l1.total_received_from_them =
                       [l0.total_received_from_them EXCEPT ![r.item] = @ + r.quantity]
                 /\ l1.total_given_to_them = l0.total_given_to_them
           /\ \A p \in Players \ {r.player} : ledgers'[p] = ledgers[p]
    ]_vars

\* coal received from a counterparty to whom the bot owes an unpaid diamond
\* debt and who owes the bot one, and to whom it owes no coal
C28_Witness ==
    /\ received /= <<>>
    /\ received[1].item = "coal"
    /\ ledgers[received[1].player] /= <<>>
    /\ LET l == ledgers[received[1].player][1]
       IN /\ \E n \in 1..Len(l.debts_we_owe) :
                l.debts_we_owe[n].item = "diamond" /\ ~l.debts_we_owe[n].paid
          /\ \A n \in 1..Len(l.debts_we_owe) : l.debts_we_owe[n].item /= "coal"
          /\ Len(l.debts_owed_to_us) > 0
          /\ l.total_received_from_them["coal"] = received[1].quantity

(***************************************************************************)
(* GoalPlanner: the emergency goal under fail_current, and current_goal    *)
(* against pick_next                                                       *)
(***************************************************************************)
\* the active goal is one emergency() created: no other goal has
\* max_attempts = 1
EmergencyGoalActive ==
    /\ active_goal /= 0
    /\ goals[active_goal].status = "Active"
    /\ goals[active_goal].max_attempts = EmergencyMaxAttempts

\* C29: fail_current() called while the goal emergency() created is the
\* active goal marks it Failed and adds one to failed_count.
C29_EmergencyGoalFailsAtOnce ==
    [][(goal_op' = "fail_current" /\ EmergencyGoalActive) =>
          /\ goals'[active_goal].status = "Failed"
          /\ failed_count' = failed_count + 1]_vars

\* what the code does with it: Failed only once pick_next() has selected the
\* goal again and counted an attempt, Paused on the fail_current() that
\* follows emergency()
EmergencyGoalFailsByAttempts ==
    [][(goal_op' = "fail_current" /\ EmergencyGoalActive) =>
          IF goals[active_goal].attempts >= EmergencyMaxAttempts
          THEN /\ goals'[active_goal].status = "Failed"
               /\ failed_count' = failed_count + 1
          ELSE /\ goals'[active_goal].status = "Paused"
               /\ failed_count' = failed_count]_vars

\* no goal has status Active
NoGoalActive == \A i \in 1..Len(goals) : goals[i].status /= "Active"

\* C30: with no goal Active, current_goal() is the goal pick_next() would
\* select (the first of lowest priority among Pending and Paused), and none
\* only when pick_next() would select none.
C30_CurrentIsNextSelection ==
    NoGoalActive =>
        current_goal(goals, active_goal) = MinByKey(goals, PickCandidates(goals))

\* what the code does: with no goal Active and no active reference,
\* current_goal() is the first of lowest priority among the Pending goals
CurrentIsFirstPending ==
    (NoGoalActive /\ active_goal = 0) =>
        current_goal(goals, active_goal)
            = MinByKey(goals, {i \in 1..Len(goals) : goals[i].status = "Pending"})

(***************************************************************************)
(* evaluate_request: the 32-bit product and the Accept outcomes            *)
(***************************************************************************)
\* the counterparty of the request is known, its credit_score is not below
\* -20 and it has at most 2 unpaid debts
InGoodStanding(r) ==
    /\ ledgers[r.player] /= <<>>
    /\ ledgers[r.player][1].credit_score >= -20
    /\ Cardinality({n \in 1..Len(ledgers[r.player][1].debts_owed_to_us) :
                       ~ledgers[r.player][1].debts_owed_to_us[n].paid}) <= 2

\* the mathematical product value * quantity exceeds 20
Rich(r) == ItemValue(r.item) > 0 /\ r.quantity > 20 \div ItemValue(r.item)

\* the mathematical product value * quantity is 0
Worthless(r) == ItemValue(r.item) = 0 \/ r.quantity = 0

\* C34: for a known counterparty in good standing, evaluate_request answers
\* Negotiate whenever the mathematical product item value * quantity
\* exceeds 20, for every 32-bit quantity.
C34_RichRequestIsNegotiated ==
    [][(/\ ledger_op' = "evaluate_request"
        /\ InGoodStanding(request'[1])
        /\ Rich(request'[1]))
       => decision'[1].kind = "Negotiate"]_vars

\* C37: evaluate_request never returns Accept for a request whose value
\* (item value * quantity) is not zero.
C37_AcceptOnlyWorthless ==
    [][(ledger_op' = "evaluate_request" /\ decision'[1].kind = "Accept")
       => Worthless(request'[1])]_vars

\* no counterparty's credit_score exceeds 0, and no owed-to-us debt is paid
ScoreNeverPositive ==
    \A p \in Players :
        ledgers[p] /= <<>> =>
            /\ ledgers[p][1].credit_score <= 0
            /\ \A n \in 1..Len(ledgers[p][1].debts_owed_to_us) :
                  ~ledgers[p][1].debts_owed_to_us[n].paid

\* an Accept is the answer to a request whose 32-bit product is 0
AcceptOnlyOnZeroProduct ==
    [][(ledger_op' = "evaluate_request" /\ decision'[1].kind = "Accept")
       => LET v == u32_mul(ItemValue(request'[1].item), request'[1].quantity)
          IN v.hi = 0 /\ v.lo = 0]_vars

(***************************************************************************)
(* GoalPlanner: the active reference against the statuses                  *)
(***************************************************************************)
\* C35: in every reachable state, an active reference that is set names an
\* existing goal whose status is Active, and with the reference empty no
\* goal has status Active.
C35_ReferenceAgreesWithStatus ==
    IF active_goal /= 0
    THEN active_goal \in 1..Len(goals) /\ goals[active_goal].status = "Active"
    ELSE ActiveGoals = {}

\* C35 witness: complete_current() has taken the reference of the goal
\* pick_next() selected after an emergency: the reference is empty, no goal
\* is Active, and the preempted goal waits Paused.
C35_Witness ==
    /\ goal_op = "complete_current"
    /\ active_goal = 0
    /\ ActiveGoals = {}
    /\ completed_count > 0
    /\ \E i \in 1..Len(goals) : goals[i].status = "Paused"
    /\ \E i \in 1..Len(goals) : goals[i].max_attempts = EmergencyMaxAttempts

(***************************************************************************)
(* GoalPlanner: the rounds of pick_next() and fail_current()               *)
(***************************************************************************)
\* every goal is Failed, Completed or Abandoned, and has counted exactly its
\* own max_attempts if it is Failed
AllGoalsDone ==
    \A i \in 1..Len(goals) :
        /\ goals[i].status \in {"Failed", "Completed", "Abandoned"}
        /\ goals[i].status = "Failed" => goals[i].attempts = goals[i].max_attempts

\* C33: with no further add_goal or emergency, the rounds of pick_next()
\* followed by fail_current() come to an end: from some round on every goal
\* is Failed, Completed or Abandoned, each after its own max_attempts
\* attempts, and pick_next() returns none.
C33_RoundsExhaustTheBacklog ==
    <>[](AllGoalsDone /\ (goal_op = "pick_next" => picked = 0))

\* C33 witness: pick_next() returns none over a backlog that holds an added
\* goal and an emergency goal besides the seeded ones, all of them Failed
C33_Witness ==
    /\ goal_op = "pick_next"
    /\ picked = 0
    /\ AllGoalsDone
    /\ failed_count = Len(goals)
    /\ \E i \in 1..Len(goals) : goals[i].max_attempts = EmergencyMaxAttempts
    /\ Len(goals) = Len(SeedGoals) + MaxAdded

(***************************************************************************)
(* Motor: the sprinting and sneaking flags against the active slot         *)
(***************************************************************************)
\* C38: whenever the active-action slot is empty, is_sprinting and
\* is_sneaking are both false.
C38_FlagsClearWithEmptySlot ==
    active_action = <<>> => (~is_sprinting /\ ~is_sneaking)

\* a flag is set exactly while the action that set it is in the slot, as
\* long as clear_queue() has not emptied the slot
FlagsFollowTheSlot ==
    /\ is_sprinting <=> (active_action /= <<>>
                          /\ active_action[1].command.kind = "StartSprint")
    /\ is_sneaking <=> (active_action /= <<>>
                         /\ active_action[1].command.kind = "SneakPulse")

FollowedAt(q) ==
    IF PendingAt(q, Followed) = {} THEN 0
    ELSE CHOOSE n \in PendingAt(q, Followed) : \A m \in PendingAt(q, Followed) : n <= m

\* C39: with ticks occurring for ever and urgent insertions stopping at
\* some point, a pending command is eventually dequeued and executed; no
\* step other than queue_urgent() moves it away from the front, so fidgets
\* and timed actions delay it without overtaking it.
C39_PendingIsReached ==
    /\ [][(FollowedAt(command_queue) /= 0 /\ motor_op' /= "queue_urgent")
            => FollowedAt(command_queue') <= FollowedAt(command_queue)]_vars
    /\ (<>[](motor_op /= "queue_urgent"))
        => ((FollowedAt(command_queue) /= 0) ~> (executed = <<Followed>>))

\* C39 witness: the followed command is executed by a step that leaves
\* fidgets behind it in the queue, and nothing else
C39_Witness ==
    /\ executed = <<Followed>>
    /\ motor_op = "step"
    /\ Len(command_queue) > 0
    /\ \A n \in 1..Len(command_queue) : command_queue[n] \in FidgetCommands


(***************************************************************************)
(* The locks of State                                                      *)
(***************************************************************************)
Blocked(p) == At(p, "lock") /\ lock_owner[Current(p).arg] /= "none"

\* every member of S waits for a mutex whose guard another member holds
CircularWait(S) ==
    /\ S /= {}
    /\ \A p \in S : Blocked(p) /\ lock_owner[Current(p).arg] \in S

\* C36: with the handlers of a tick and of a chat message and the spawned
\* tasks running side by side, no set of them is ever waiting in a circle,
\* each for a mutex held by another one of the set.
C36_NoCircularWait == \A S \in SUBSET Procs : ~CircularWait(S)

\* a handler or task is at an .await
Suspended(p) == At(p, "await") \/ At(p, "ready")

\* C31: a handler or task that has reached an .await holds no guard: every
\* mutex it locked before was unlocked before.
C31_NoGuardAcrossAwait == \A p \in Procs : Suspended(p) => HeldBy(p) = {}

\* the tick handler is at its last await, behind all its locked sections,
\* the chat handler at its own, a reply task and a judgment task wait for
\* the network, and the reply task has been through the retry loop
C31_Witness ==
    /\ lock_pc["tick"] = Len(TickProgram)
    /\ lock_pc["chat"] = Len(ChatProgram)
    /\ lock_pc["reply"] = Len(RetryLoop) + 1
    /\ At("reply", "await")
    /\ At("judge", "await")

TickDone == lock_pc["tick"] = Len(TickProgram) + 1

====
